---- MODULE Spec2Model ----
(***************************************************************************)
(* Model of the pipeline orchestrator (scripts/orchestration/              *)
(* pipeline_orchestrator.py), the API ingestion it delegates to            *)
(* (scripts/ingestion/api_ingestion.py) and the warehouse connector        *)
(* (scripts/utils/snowflake_connector.py).                                  *)
(*                                                                         *)
(* The program is single threaded.  Every step that talks to the outside   *)
(* (warehouse connect / execute / commit, HTTP request, sleep) is one      *)
(* action; a step that can fail has a succeeding and a failing disjunct.   *)
(* A statement takes effect on the warehouse table when it is executed     *)
(* (the connector is opened without an autocommit argument, and the        *)
(* driver's default is statement-level autocommit).                        *)
(* Run identifiers embed a timestamp and a random suffix; they are         *)
(* modelled as distinct strings.                                           *)
(***************************************************************************)
EXTENDS Integers, Sequences, FiniteSets, TLC

\* ------------------------------------------------------------------ bounds
MaxCalls == 2           \* top-level calls made by the caller
MaxRetries == 2         \* largest configured retry_attempts
MaxConnCalls == 4       \* calls made on the stand-alone connector

VARIABLES
    config,     \* the loaded YAML: api_ingestion.endpoints and rate_limit
    server,     \* the bodies the remote API may answer a successful request with
    orchs,      \* orchs[i] = run_id of the i-th PipelineOrchestrator instance
    sf,         \* sf[i] = connection of the i-th orchestrator's SnowflakeConnector
    api_sf,     \* connection of the live APIIngestion instance's connector
    logs,       \* rows of VALIDATION.PIPELINE_LOGS, in insertion (start time) order
    ncalls,     \* top-level calls made so far
    pc,         \* position of the single thread of control
    of,         \* frame of the orchestrator method being executed
    af,         \* frame of the APIIngestion method being executed
    outcome,    \* how the last top-level call ended
    events,     \* what the current top-level call did so far, in order
    cn,         \* a SnowflakeConnector used on its own, and the connections it established
    cli         \* a run of one of the command-line programs

vars == <<config, server, orchs, sf, api_sf, logs, ncalls, pc, of, af, outcome, events, cn, cli>>

\* ------------------------------------------------------------------ values
Stages == <<"INGESTION", "TRANSFORMATION", "VALIDATION">>
StageNo(s) == CHOOSE k \in 1..3 : Stages[k] = s

Procedures == <<"CLEAN_RAW_DATA", "REMOVE_DUPLICATES", "APPLY_BUSINESS_TRANSFORMS">>

\* JSON values, tagged by their Python type
NoneVal == [t |-> "None"]
JList(s) == [t |-> "list", items |-> s]
JDict(f) == [t |-> "dict", keys |-> f]
JScalar(x) == [t |-> "scalar", s |-> x]
JNumber(n) == [t |-> "number", n |-> n]
IsList(d) == d.t = "list"
IsDict(d) == d.t = "dict"

RecA == JDict([k \in {"a"} |-> JScalar("1")])
RecB == JDict([k \in {"b"} |-> JScalar("2")])
Other5 == JDict([k \in {"other"} |-> JNumber(5)])

\* an event of the current call
Ev(op, who, rid, st, msg, n) ==
    [op |-> op, who |-> who, rid |-> rid, st |-> st, msg |-> msg, n |-> n]

NoResults == [ingestion |-> FALSE, transformation |-> FALSE, validation |-> FALSE]

IdleOf == [self |-> 0, call |-> "none", stage |-> "none", handler |-> FALSE,
           end_status |-> "none", end_msg |-> "NULL", ret |-> FALSE, step |-> 0,
           results |-> NoResults, arg |-> "none", rows |-> <<>>]

EmptyMap == [n \in {} |-> FALSE]

\* endpoint_config.get('headers', {}): the default
NoHeaders == [h \in {} |-> ""]

IdleAf == [call |-> "none", name |-> "none", idx |-> 0, ep |-> 0, attempt |-> 0,
           response |-> NoneVal, data |-> NoneVal, row |-> 0, success |-> FALSE, results |-> EmptyMap,
           headers |-> NoHeaders]

\* SnowflakeConnector.__init__ (self.connection = None, written 0), no connection
\* established yet, no call made yet
IdleCn == [connection |-> 0, conns |-> <<>>, cursors |-> 0, ncalls |-> 0, op |-> "none",
           raised |-> FALSE, msg |-> "NULL", established |-> FALSE, conn_ret |-> 0,
           ret |-> "none", trace |-> <<>>, arg |-> "none", file |-> <<>>]

\* no command-line program running; exit is the exit code of the process, -1 while
\* it has none
\* sys.exit(0 if success else 1)
ExitCode(success) == IF success THEN 0 ELSE 1

IdleCli == [prog |-> "none", args |-> {}, pc |-> "none", exit |-> -1, sf |-> "None",
            ops |-> <<>>, idx |-> 0, success |-> FALSE]

NoOutcome == [kind |-> "none", ret |-> FALSE, results |-> NoResults, msg |-> "NULL"]

\* ------------------------------------------------------------------ connector

\* SnowflakeConnector.connect: a fresh connection is established only when there is
\* none or the previous one is closed; establishing can fail, reusing cannot.
ConnectOutcomes(c) == IF c = "None" \/ c = "closed" THEN {"ok", "connect failed"} ELSE {"ok"}

\* cursor.execute and conn.commit on an open connection
ExecuteOutcomes == {"ok", "execute failed"}
CommitOutcomes == {"ok", "commit failed"}

\* ------------------------------------------------------------------ orchestrator

\* PipelineOrchestrator.__init__: the values f"RUN_{timestamp}_{uuid4()[:8]}" takes
\* in the successive constructions of the program, all different and different from
\* those of earlier programs.  Like main(), the program constructs one orchestrator.
RunIds == <<"RUN_A">>

\* the rows an earlier run of the pipeline left in the log table
EarlierRows ==
    <<[name |-> "INGESTION", run_id |-> "RUN_EARLIER", status |-> "FAILED",
       msg |-> "NULL", updates |-> 1]>>

\* self.run_id as read by the SQL builders and the procedure calls of instance i
RunIdRegenerated(i) == orchs[i] \o "_" \o ToString(Len(events))
RunId(i) == orchs[i]

Self == of.self
InTry == ~of.handler /\ pc \notin {"ls_connect", "ls_execute", "ls_commit"}

\* the row inserted by log_pipeline_start
StartRow(name, rid) ==
    [name |-> name, run_id |-> rid, status |-> "IN_PROGRESS", msg |-> "NULL", updates |-> 0]

\* the effect of log_pipeline_end's UPDATE ... WHERE RUN_ID = rid AND PIPELINE_NAME = name
UpdateRows(rows, name, rid, status, msg) ==
    [i \in DOMAIN rows |->
        IF rows[i].run_id = rid /\ rows[i].name = name
        THEN [rows[i] EXCEPT !.status = status, !.msg = msg, !.updates = @ + 1]
        ELSE rows[i]]

\* 1 when the exception comes out of log_pipeline_end, 0 otherwise
InLogEnd == IF pc \in {"le_connect", "le_execute", "le_commit"} THEN 1 ELSE 0

\* an exception leaves the running top-level call
Propagate(msg, evs) ==
    /\ pc' = "idle"
    /\ outcome' = [kind |-> "raised", ret |-> FALSE, results |-> of.results, msg |-> msg]
    /\ events' = events \o evs \o <<Ev("raise", of.stage, "", "propagated", msg, InLogEnd)>>
    /\ of' = of

\* an exception raised inside a stage's try block: except Exception as e ->
\* log_pipeline_end(stage, 'FAILED', error_message=str(e)); return False
Catch(msg, evs) ==
    /\ pc' = "le_connect"
    /\ of' = [of EXCEPT !.handler = TRUE, !.end_status = "FAILED", !.end_msg = msg,
                        !.ret = FALSE]
    /\ events' = events \o evs \o <<Ev("raise", of.stage, "", "caught", msg, InLogEnd)>>
    /\ outcome' = outcome

\* an exception raised by orchestrator code at the current position
Raise(msg, evs) == IF InTry THEN Catch(msg, evs) ELSE Propagate(msg, evs)

\* the call log_pipeline_end(stage, status, error_message=msg) made from the try
\* block, followed by `return ret`
LogEndThenReturnTrue(status, msg, ret, evs) ==
    /\ pc' = "le_connect"
    /\ of' = [of EXCEPT !.end_status = status, !.end_msg = msg, !.ret = TRUE]
    /\ events' = events \o evs
    /\ outcome' = outcome
LogEndThenReturn(status, msg, ret, evs) ==
    /\ pc' = "le_connect"
    /\ of' = [of EXCEPT !.end_status = status, !.end_msg = msg, !.ret = ret]
    /\ events' = events \o evs
    /\ outcome' = outcome

BodyEntry(stage) ==
    CASE stage = "INGESTION" -> "api_new"
      [] stage = "TRANSFORMATION" -> "tr_connect"
      [] stage = "VALIDATION" -> "va_connect"

\* a stage function starts with self.log_pipeline_start(<stage>), before its try block
FirstStepSkipsStartLog(stage) == BodyEntry(stage)
FirstStep(stage) == "ls_connect"

NewOrchestrator ==
    /\ pc = "idle"
    /\ Len(orchs) < Len(RunIds)
    /\ Len(orchs) <= ncalls
    /\ orchs' = Append(orchs, RunIds[Len(orchs) + 1])
    /\ sf' = Append(sf, "None")
    /\ of' = IdleOf
    /\ af' = IdleAf
    /\ outcome' = NoOutcome
    /\ events' = <<>>
    /\ UNCHANGED <<cli, cn, config, server, api_sf, logs, ncalls, pc>>

\* (an instance is constructed no earlier than needed: constructing touches nothing
\* but the new instance, so an earlier construction gives the same runs)

\* entry of a stage function called by the caller on instance i
EnterCall(i, call, stage) ==
    /\ pc = "idle"
    /\ ncalls < MaxCalls
    /\ ncalls' = ncalls + 1
    /\ of' = [IdleOf EXCEPT !.self = i, !.call = call, !.stage = stage]
    /\ af' = IdleAf
    /\ api_sf' = "None"
    /\ pc' = FirstStep(stage)
    /\ outcome' = NoOutcome
    /\ events' = <<>>
    /\ UNCHANGED <<cli, cn, config, server, orchs, sf, logs>>

run_ingestion == \E i \in DOMAIN orchs : EnterCall(i, "run_ingestion", "INGESTION")
run_transformation == \E i \in DOMAIN orchs : EnterCall(i, "run_transformation", "TRANSFORMATION")
run_validation == \E i \in DOMAIN orchs : EnterCall(i, "run_validation", "VALIDATION")
run_full_pipeline == \E i \in DOMAIN orchs : EnterCall(i, "run_full_pipeline", "INGESTION")

\* log_pipeline_start: conn = self.snowflake.connect()
LogStartConnect ==
    /\ pc = "ls_connect"
    /\ \E r \in ConnectOutcomes(sf[Self]) :
        IF r = "ok"
        THEN /\ sf' = [sf EXCEPT ![Self] = "open"]
             /\ pc' = "ls_execute"
             /\ UNCHANGED <<of, outcome, events>>
        ELSE /\ Raise(r, <<>>)
             /\ sf' = sf
    /\ UNCHANGED <<cli, cn, config, server, orchs, api_sf, logs, ncalls, af>>

\* log_pipeline_start: cursor.execute(INSERT ... 'IN_PROGRESS')
LogStartExecute ==
    /\ pc = "ls_execute"
    /\ \E r \in ExecuteOutcomes :
        IF r = "ok"
        THEN /\ logs' = Append(logs, StartRow(of.stage, RunId(Self)))
             /\ events' = Append(events, Ev("insert", of.stage, RunId(Self), "IN_PROGRESS", "NULL", 0))
             /\ pc' = "ls_commit"
             /\ UNCHANGED <<of, outcome>>
        ELSE /\ Raise(r, <<>>)
             /\ logs' = logs
    /\ UNCHANGED <<cli, cn, config, server, orchs, sf, api_sf, ncalls, af>>

\* log_pipeline_start: conn.commit(); cursor.close(); then the stage's try block
LogStartCommit ==
    /\ pc = "ls_commit"
    /\ \E r \in CommitOutcomes :
        IF r = "ok"
        THEN /\ pc' = BodyEntry(of.stage)
             /\ UNCHANGED <<of, outcome, events>>
        ELSE Raise(r, <<>>)
    /\ UNCHANGED <<cli, cn, config, server, orchs, sf, api_sf, logs, ncalls, af>>

\* ---- run_transformation: the try block

\* conn = self.snowflake.connect(); cursor = conn.cursor()
TransConnect ==
    /\ pc = "tr_connect"
    /\ \E r \in ConnectOutcomes(sf[Self]) :
        IF r = "ok"
        THEN /\ sf' = [sf EXCEPT ![Self] = "open"]
             /\ pc' = "tr_call"
             /\ of' = [of EXCEPT !.step = 1]
             /\ UNCHANGED <<outcome, events>>
        ELSE /\ Raise(r, <<>>)
             /\ sf' = sf
    /\ UNCHANGED <<cli, cn, config, server, orchs, api_sf, logs, ncalls, af>>

\* where the try block goes after the procedure call number `step` returned
AfterProcedureSkipsRest(step) == "tr_commit"
AfterProcedure(step) == IF step < Len(Procedures) THEN "tr_call" ELSE "tr_commit"

\* cursor.execute(CALL CLEANED.<procedure>(..., run_id)), the three in source order
TransCall ==
    /\ pc = "tr_call"
    /\ \E r \in ExecuteOutcomes :
        IF r = "ok"
        THEN /\ events' = Append(events,
                    Ev("call", of.stage, RunId(Self), "ok", Procedures[of.step], of.step))
             /\ pc' = AfterProcedure(of.step)
             /\ of' = [of EXCEPT !.step = @ + 1]
             /\ outcome' = outcome
        ELSE Raise(r, <<Ev("call", of.stage, RunId(Self), "failed", Procedures[of.step], of.step)>>)
    /\ UNCHANGED <<cli, cn, config, server, orchs, sf, api_sf, logs, ncalls, af>>

\* conn.commit(); cursor.close(); self.log_pipeline_end('TRANSFORMATION', 'SUCCESS'); return True
TransCommit ==
    /\ pc = "tr_commit"
    /\ \E r \in CommitOutcomes :
        IF r = "ok"
        THEN LogEndThenReturn("SUCCESS", "NULL", TRUE, <<>>)
        ELSE Raise(r, <<>>)
    /\ UNCHANGED <<cli, cn, config, server, orchs, sf, api_sf, logs, ncalls, af>>

\* ---- run_validation: the try block

ValConnect ==
    /\ pc = "va_connect"
    /\ \E r \in ConnectOutcomes(sf[Self]) :
        IF r = "ok"
        THEN /\ sf' = [sf EXCEPT ![Self] = "open"]
             /\ pc' = "va_run_all"
             /\ UNCHANGED <<of, outcome, events>>
        ELSE /\ Raise(r, <<>>)
             /\ sf' = sf
    /\ UNCHANGED <<cli, cn, config, server, orchs, api_sf, logs, ncalls, af>>

\* cursor.execute(CALL VALIDATION.RUN_ALL_VALIDATIONS('ANALYTICS.FINAL_DATA', run_id))
ValRunAll ==
    /\ pc = "va_run_all"
    /\ \E r \in ExecuteOutcomes :
        IF r = "ok"
        THEN /\ events' = Append(events,
                    Ev("call", of.stage, RunId(Self), "ok", "RUN_ALL_VALIDATIONS", 1))
             /\ pc' = "va_count"
             /\ UNCHANGED <<of, outcome>>
        ELSE Raise(r, <<Ev("call", of.stage, RunId(Self), "failed", "RUN_ALL_VALIDATIONS", 1)>>)
    /\ UNCHANGED <<cli, cn, config, server, orchs, sf, api_sf, logs, ncalls, af>>

\* the counts the warehouse answers the COUNT(*) query with
FailedCheckCounts == {0, 2}

\* f'{failed_checks} validation checks failed' if failed_checks > 0 else None
ChecksMessageNone(failed_checks) == "NULL"
ChecksMessage(failed_checks) ==
    IF failed_checks > 0 THEN ToString(failed_checks) \o " validation checks failed" ELSE "NULL"

\* the SELECT COUNT(*) of the FAIL rows of this run, fetchone, and the end of the
\* try block: status, log_pipeline_end and `return failed_checks == 0`
ValCount ==
    /\ pc = "va_count"
    /\ \/ \E failed_checks \in FailedCheckCounts :
            LogEndThenReturn(IF failed_checks = 0 THEN "SUCCESS" ELSE "FAILED",
                             ChecksMessage(failed_checks), failed_checks = 0,
                             <<Ev("query", of.stage, RunId(Self), "ok", "COUNT", failed_checks)>>)
       \/ Raise("execute failed", <<Ev("query", of.stage, RunId(Self), "failed", "COUNT", 0)>>)
    /\ UNCHANGED <<cli, cn, config, server, orchs, sf, api_sf, logs, ncalls, af>>

\* ---- log_pipeline_end, called from the try block or from the except handler

LogEndConnect ==
    /\ pc = "le_connect"
    /\ \E r \in ConnectOutcomes(sf[Self]) :
        IF r = "ok"
        THEN /\ sf' = [sf EXCEPT ![Self] = "open"]
             /\ pc' = "le_execute"
             /\ UNCHANGED <<of, outcome, events>>
        ELSE /\ Raise(r, <<>>)
             /\ sf' = sf
    /\ UNCHANGED <<cli, cn, config, server, orchs, api_sf, logs, ncalls, af>>

\* cursor.execute(UPDATE ... SET STATUS, ERROR_MESSAGE WHERE RUN_ID AND PIPELINE_NAME)
LogEndExecute ==
    /\ pc = "le_execute"
    /\ \E r \in ExecuteOutcomes :
        IF r = "ok"
        THEN /\ logs' = UpdateRows(logs, of.stage, RunId(Self), of.end_status, of.end_msg)
             /\ events' = Append(events,
                    Ev("update", of.stage, RunId(Self), of.end_status, of.end_msg, 0))
             /\ pc' = "le_commit"
             /\ UNCHANGED <<of, outcome>>
        ELSE /\ Raise(r, <<>>)
             /\ logs' = logs
    /\ UNCHANGED <<cli, cn, config, server, orchs, sf, api_sf, ncalls, af>>

\* conn.commit(); cursor.close(); then the stage function's return statement
LogEndCommit ==
    /\ pc = "le_commit"
    /\ \E r \in CommitOutcomes :
        IF r = "ok"
        THEN /\ pc' = "return"
             /\ UNCHANGED <<of, outcome, events>>
        ELSE Raise(r, <<>>)
    /\ UNCHANGED <<cli, cn, config, server, orchs, sf, api_sf, logs, ncalls, af>>

\* ---- the stage function returns; run_full_pipeline goes on or stops

\* the key of `results` a stage's return value is stored under
ResultKeyCopyPaste(stage) == "ingestion"
ResultKey(stage) ==
    CASE stage = "INGESTION" -> "ingestion"
      [] stage = "TRANSFORMATION" -> "transformation"
      [] stage = "VALIDATION" -> "validation"

\* run_full_pipeline after results[stage] = ok: `if not results[...]: return results`
GoesOnAfterFailure(stage, ok) == stage # "VALIDATION"
GoesOn(stage, ok) == ok /\ stage # "VALIDATION"

Bool(b) == IF b THEN "True" ELSE "False"

StageReturn ==
    /\ pc = "return"
    /\ events' = Append(events, Ev("return", of.stage, RunId(Self), Bool(of.ret), "NULL", 0))
    /\ IF of.call = "run_full_pipeline"
       THEN LET res == [of.results EXCEPT ![ResultKey(of.stage)] = of.ret] IN
            IF GoesOn(of.stage, of.ret)
            THEN /\ of' = [of EXCEPT !.results = res, !.stage = Stages[StageNo(of.stage) + 1],
                                     !.handler = FALSE, !.end_status = "none",
                                     !.end_msg = "NULL", !.ret = FALSE, !.step = 0]
                 /\ pc' = FirstStep(Stages[StageNo(of.stage) + 1])
                 /\ outcome' = outcome
            ELSE /\ of' = [of EXCEPT !.results = res]
                 /\ pc' = "idle"
                 /\ outcome' = [kind |-> "returned", ret |-> FALSE, results |-> res, msg |-> "NULL"]
       ELSE /\ of' = of
            /\ pc' = "idle"
            /\ outcome' = [kind |-> "returned", ret |-> of.ret, results |-> NoResults, msg |-> "NULL"]
    /\ UNCHANGED <<cli, cn, config, server, orchs, sf, api_sf, logs, ncalls, af>>

\* ------------------------------------------------------------------ API ingestion

\* dict.get(key, default)
Get(d, key, default) == IF key \in DOMAIN d THEN d[key] ELSE default

DefaultRetryAttempts == 3
DefaultRetryDelay == 5
DefaultRequestsPerSecond == 10

endpoints == config.endpoints
rate_limit == config.rate_limit
max_retries == Get(rate_limit, "retry_attempts", DefaultRetryAttempts)
retry_delay == Get(rate_limit, "retry_delay", DefaultRetryDelay)
requests_per_second == Get(rate_limit, "requests_per_second", DefaultRequestsPerSecond)

\* ep.get('enabled', True)
EnabledIgnored(ep) == TRUE
Enabled(ep) == Get(ep, "enabled", TRUE)

\* str(data) of a decoded body that is neither a list nor a dict
Str(v) ==
    CASE v.t = "number" -> ToString(v.n)
      [] v.t = "scalar" -> v.s
      [] v.t = "None" -> "None"

\* _fetch_api_data, "Handle different response formats"
WrapNothing(v) == v
Wrap(v) == IF IsList(v) THEN v ELSE JList(<<v>>)
Normalize(data) ==
    IF IsList(data) THEN data
    ELSE IF IsDict(data)
         THEN IF "data" \in DOMAIN data.keys THEN Wrap(data.keys["data"])
              ELSE IF "results" \in DOMAIN data.keys THEN Wrap(data.keys["results"])
              ELSE JList(<<data>>)
         ELSE JList(<<JDict([k \in {"raw_data"} |-> JScalar(Str(data))])>>)

\* what requests.request + raise_for_status + response.json() can do: a transport
\* failure (a RequestException), a body that is not JSON (a RequestException in
\* recent versions of the HTTP library, a plain ValueError in older ones), or a
\* decoded body
RequestOutcomes ==
    {[kind |-> "transport"]}
        \cup {[kind |-> "decode", caught |-> c] : c \in BOOLEAN}
        \cup {[kind |-> "ok", body |-> b] : b \in server}

\* an exception that no APIIngestion method catches: it reaches run_ingestion's
\* try block, or the caller when APIIngestion is used directly
ApiRaise(msg, evs) == IF of.call = "none" THEN Propagate(msg, evs) ELSE Catch(msg, evs)

\* run_ingestion's try block: api_ingestion = APIIngestion(), which loads the
\* configuration and owns a new connector; then ingest_all_endpoints()
ApiNew ==
    /\ pc = "api_new"
    /\ \/ /\ api_sf' = "None"
          /\ af' = [IdleAf EXCEPT !.call = "ingest_all_endpoints", !.idx = 1]
          /\ pc' = "ia_loop"
          /\ events' = Append(events, Ev("api_new", of.stage, "", "ok", "NULL", 0))
          /\ UNCHANGED <<of, outcome>>
       \/ /\ Raise("config unreadable", <<>>)
          /\ UNCHANGED <<api_sf, af>>
    /\ UNCHANGED <<cli, cn, config, server, orchs, sf, logs, ncalls>>

\* entry of an APIIngestion method called directly by the caller
EnterApi(call, name) ==
    /\ pc = "idle"
    /\ ncalls < MaxCalls
    /\ ncalls' = ncalls + 1
    /\ af' = [IdleAf EXCEPT !.call = call, !.name = name, !.idx = 1]
    /\ pc' = IF call = "ingest_endpoint" THEN "ie_lookup" ELSE "ia_loop"
    /\ outcome' = NoOutcome
    /\ events' = <<>>
    /\ UNCHANGED <<cli, cn, config, server, orchs, sf, api_sf, logs, of>>

EndpointNames == {"e1", "e2", "missing"}

ingest_endpoint == \E name \in EndpointNames : EnterApi("ingest_endpoint", name)
ingest_all_endpoints == EnterApi("ingest_all_endpoints", "none")

\* the record sets _load_to_snowflake is called with when it is called on its own
LoadInputs == {NoneVal, JList(<<>>), JList(<<RecA>>)}

\* _load_to_snowflake(data, target_table, run_id) called on its own
load_to_snowflake ==
    /\ pc = "idle"
    /\ ncalls < MaxCalls
    /\ ncalls' = ncalls + 1
    /\ \E data \in LoadInputs :
           af' = [IdleAf EXCEPT !.call = "_load_to_snowflake", !.name = "e1", !.data = data]
    /\ pc' = "ld_entry"
    /\ outcome' = NoOutcome
    /\ events' = <<>>
    /\ UNCHANGED <<cli, cn, config, server, orchs, sf, api_sf, logs, of>>

\* ingest_all_endpoints: one iteration of `for endpoint in endpoints`
IngestAllNext ==
    /\ pc = "ia_loop"
    /\ af.idx <= Len(endpoints)
    /\ IF Enabled(endpoints[af.idx])
       THEN /\ af' = [af EXCEPT !.name = endpoints[af.idx].name]
            /\ pc' = "ie_lookup"
       ELSE /\ af' = [af EXCEPT !.idx = @ + 1]
            /\ pc' = pc
    /\ UNCHANGED <<cli, cn, config, server, orchs, sf, api_sf, logs, ncalls, of, outcome, events>>

\* all(api_results.values())
AnyTrue(results) == \E n \in DOMAIN results : results[n]
AllTrue(results) == \A n \in DOMAIN results : results[n]

\* ingest_all_endpoints: `return results`, to run_ingestion (api_success, then
\* log_pipeline_end and return api_success) or to the caller
IngestAllReturn ==
    /\ pc = "ia_loop"
    /\ af.idx > Len(endpoints)
    /\ IF of.call # "none"
       THEN LET api_success == AllTrue(af.results) IN
            LogEndThenReturn(IF api_success THEN "SUCCESS" ELSE "FAILED", "NULL", api_success, <<>>)
       ELSE /\ pc' = "idle"
            /\ outcome' = [kind |-> "returned", ret |-> AllTrue(af.results),
                           results |-> NoResults, msg |-> "NULL"]
            /\ UNCHANGED <<of, events>>
    /\ UNCHANGED <<cli, cn, config, server, orchs, sf, api_sf, logs, ncalls, af>>

Min(S) == CHOOSE x \in S : \A y \in S : x <= y

\* headers[key] = value
With(headers, key, value) ==
    [h \in DOMAIN headers \cup {key} |-> IF h = key THEN value ELSE headers[h]]

\* the values of the environment variables API_BEARER_TOKEN / API_KEY ("": unset)
EnvValues == {"", "ENV_SECRET"}

\* os.getenv(...) or endpoint_config.get(key, '')
EnvOr(env, ep, key) == IF env # "" THEN env ELSE Get(ep, key, "")

\* _get_auth_headers: the dict it returns
AuthHeaders(ep, env) ==
    LET headers == Get(ep, "headers", NoHeaders)
        auth_type == Get(ep, "auth_type", "none")
    IN CASE auth_type = "bearer" ->
                With(headers, "Authorization", "Bearer " \o EnvOr(env, ep, "bearer_token"))
         [] auth_type = "api_key" -> With(headers, "X-API-Key", EnvOr(env, ep, "api_key"))
         [] OTHER -> headers

\* the endpoint configuration after _get_auth_headers wrote into `headers`: the
\* dict written to is the .copy() of the configured one, which stays as it was
ConfigAfterAuthAliased(ep, headers) ==
    IF "headers" \in DOMAIN ep THEN [ep EXCEPT !.headers = headers] ELSE ep
ConfigAfterAuth(ep, headers) == ep

\* ep['name'] == endpoint_name and ep.get('enabled', True)
MatchesAnyName(ep, name) == Enabled(ep)
Matches(ep, name) == ep.name = name /\ Enabled(ep)

\* ingest_endpoint: next(ep for ep in endpoints if name matches and enabled), the
\* early `return False`, else the run tag and the entry of _fetch_api_data
IngestEndpointLookup ==
    /\ pc = "ie_lookup"
    /\ LET found == {i \in DOMAIN endpoints : Matches(endpoints[i], af.name)} IN
       IF found = {}
       THEN /\ af' = [af EXCEPT !.success = FALSE]
            /\ pc' = "ie_return"
            /\ events' = events
            /\ config' = config
       ELSE \E env \in EnvValues :
            LET headers == AuthHeaders(endpoints[Min(found)], env) IN
            /\ af' = [af EXCEPT !.ep = Min(found), !.attempt = 0, !.response = NoneVal,
                                !.data = NoneVal, !.headers = headers]
            /\ config' = [config EXCEPT !.endpoints[Min(found)] = ConfigAfterAuth(@, headers)]
            /\ pc' = "f_loop"
            /\ events' = Append(events, Ev("fetch", af.name, "", "begin", "NULL", Min(found)))
    /\ UNCHANGED <<cli, cn, server, orchs, sf, api_sf, logs, ncalls, of, outcome>>

\* `for attempt in range(max_retries)`: is there an iteration for `attempt`
InRangeOffByOne(attempt) == attempt <= max_retries
InRange(attempt) == attempt < max_retries

\* _fetch_api_data: the loop enters an iteration, which starts with
\* time.sleep(1.0 / requests_per_second)
FetchRateSleep ==
    /\ pc = "f_loop"
    /\ InRange(af.attempt)
    /\ events' = Append(events, Ev("sleep", af.name, "", "rate", "1/n", requests_per_second))
    /\ pc' = "f_request"
    /\ UNCHANGED <<cli, cn, config, server, orchs, sf, api_sf, logs, ncalls, of, af, outcome>>

\* _fetch_api_data: the loop ends without an iteration left; `return None`
FetchExhausted ==
    /\ pc = "f_loop"
    /\ ~InRange(af.attempt)
    /\ af' = [af EXCEPT !.data = NoneVal]
    /\ pc' = "ie_fetched"
    /\ events' = Append(events, Ev("fetched", af.name, "", "None", "NULL", 0))
    /\ UNCHANGED <<cli, cn, config, server, orchs, sf, api_sf, logs, ncalls, of, outcome>>

\* except RequestException: `if attempt < max_retries - 1` sleep and retry, else give up
RetriesAlways(attempt) == TRUE
Retries(attempt) == attempt < max_retries - 1

\* _fetch_api_data: requests.request(...), raise_for_status, response.json() and
\* the normalization of the body
FetchRequest ==
    /\ pc = "f_request"
    /\ \E o \in RequestOutcomes :
        LET http == Ev("http", af.name, "", o.kind, "NULL", af.attempt + 1) IN
        IF o.kind = "ok"
        THEN /\ af' = [af EXCEPT !.response = o.body, !.data = Normalize(o.body)]
             /\ pc' = "ie_fetched"
             /\ events' = events \o <<http, Ev("fetched", af.name, "", "data", "NULL", 0)>>
             /\ UNCHANGED <<of, outcome>>
        ELSE IF o.kind = "transport" \/ o.caught
        THEN IF Retries(af.attempt)
             THEN /\ pc' = "f_retry"
                  /\ events' = Append(events, http)
                  /\ UNCHANGED <<of, af, outcome>>
             ELSE /\ af' = [af EXCEPT !.data = NoneVal]
                  /\ pc' = "ie_fetched"
                  /\ events' = events \o <<http, Ev("fetched", af.name, "", "None", "NULL", 0)>>
                  /\ UNCHANGED <<of, outcome>>
        ELSE /\ ApiRaise("not JSON", <<http>>)
             /\ af' = af
    /\ UNCHANGED <<cli, cn, config, server, orchs, sf, api_sf, logs, ncalls>>

\* after the retry sleep the loop goes to its next iteration, rate-limit sleep first
AfterRetrySleepSkipsRateLimit == "f_request"
AfterRetrySleep == "f_loop"

\* _fetch_api_data: time.sleep(retry_delay), then the next iteration
FetchRetrySleep ==
    /\ pc = "f_retry"
    /\ events' = Append(events, Ev("sleep", af.name, "", "retry", "n", retry_delay))
    /\ af' = [af EXCEPT !.attempt = @ + 1]
    /\ pc' = AfterRetrySleep
    /\ UNCHANGED <<cli, cn, config, server, orchs, sf, api_sf, logs, ncalls, of, outcome>>

\* ingest_endpoint: `if data is None: return False`, else
\* target_table = endpoint_config['target_table'] (a KeyError when the endpoint has
\* no such key; nothing in APIIngestion catches it) and _load_to_snowflake(...)
IsNoneNever(data) == FALSE
IsNone(data) == data = NoneVal
IngestEndpointFetched ==
    /\ pc = "ie_fetched"
    /\ IF IsNone(af.data)
       THEN /\ af' = [af EXCEPT !.success = FALSE]
            /\ pc' = "ie_return"
            /\ UNCHANGED <<of, outcome, events>>
       ELSE IF "target_table" \notin DOMAIN endpoints[af.ep]
       THEN /\ ApiRaise("KeyError: 'target_table'", <<>>)
            /\ af' = af
       ELSE /\ af' = af
            /\ pc' = "ld_entry"
            /\ UNCHANGED <<of, outcome, events>>
    /\ UNCHANGED <<cli, cn, config, server, orchs, sf, api_sf, logs, ncalls>>

\* `not data` of a list
FalsyOnlyNone(data) == data = NoneVal
Falsy(data) == data = NoneVal \/ (IsList(data) /\ Len(data.items) = 0)

\* _load_to_snowflake returns `ok` to ingest_endpoint
LoadReturns(ok, evs) ==
    /\ af' = [af EXCEPT !.success = ok]
    /\ pc' = "ie_return"
    /\ events' = events \o evs

\* _load_to_snowflake: `if not data: return False`
LoadEntry ==
    /\ pc = "ld_entry"
    /\ IF Falsy(af.data)
       THEN LoadReturns(FALSE, <<>>)
       ELSE /\ pc' = "ld_connect"
            /\ UNCHANGED <<af, events>>
    /\ UNCHANGED <<cli, cn, config, server, orchs, sf, api_sf, logs, ncalls, of, outcome>>

\* _load_to_snowflake: conn = self.snowflake.connect(), inside try/except Exception
LoadConnect ==
    /\ pc = "ld_connect"
    /\ \E r \in ConnectOutcomes(api_sf) :
        IF r = "ok"
        THEN /\ api_sf' = "open"
             /\ pc' = "ld_create"
             /\ events' = Append(events, Ev("connect", af.name, "", "ok", "NULL", 0))
             /\ af' = af
        ELSE /\ LoadReturns(FALSE, <<Ev("connect", af.name, "", "failed", "NULL", 0)>>)
             /\ api_sf' = api_sf
    /\ UNCHANGED <<cli, cn, config, server, orchs, sf, logs, ncalls, of, outcome>>

\* _load_to_snowflake: the DataFrame, its metadata columns, CREATE TABLE IF NOT EXISTS
LoadCreateTable ==
    /\ pc = "ld_create"
    /\ \E r \in ExecuteOutcomes :
        IF r = "ok"
        THEN /\ pc' = "ld_rows"
             /\ af' = [af EXCEPT !.row = 1]
             /\ events' = Append(events, Ev("create_table", af.name, "", "ok", "NULL", 0))
        ELSE LoadReturns(FALSE, <<Ev("create_table", af.name, "", "failed", "NULL", 0)>>)
    /\ UNCHANGED <<cli, cn, config, server, orchs, sf, api_sf, logs, ncalls, of, outcome>>

\* one row of pd.DataFrame(data) with the three metadata columns, as row.to_dict()
Columns(item) == IF IsDict(item) THEN item.keys ELSE [k \in {"0"} |-> item]
RowDict(item, run_id) ==
    [k \in DOMAIN Columns(item) \cup {"ingestion_timestamp", "run_id", "source"} |->
        CASE k = "ingestion_timestamp" -> [t |-> "Timestamp"]
          [] k = "run_id" -> JScalar(run_id)
          [] k = "source" -> JScalar("API")
          [] OTHER -> Columns(item)[k]]

\* json.dumps with the default encoder: dict, list, str, numbers, booleans and None
\* only; a datetime (the ingestion_timestamp cell) raises TypeError
JsonSerializable(v) == v.t \in {"None", "scalar", "number", "list", "dict"}
JsonDumpsRaises(row) == \E k \in DOMAIN row : ~JsonSerializable(row[k])

\* run_id = f"API_{endpoint_name}_{timestamp}"
RunTag(name) == "API_" \o name

\* _load_to_snowflake: one iteration of `for _, row in df.iterrows()`: json.dumps of
\* the row and the INSERT; after the last row conn.commit(), cursor.close(), return True
LoadRows ==
    /\ pc = "ld_rows"
    /\ LET row == RowDict(af.data.items[af.row], RunTag(af.name)) IN
       IF JsonDumpsRaises(row)
       THEN LoadReturns(FALSE, <<Ev("dumps", af.name, "", "TypeError", "NULL", af.row)>>)
       ELSE \E r \in ExecuteOutcomes :
            LET ins == Ev("insert_row", af.name, "", r, RunTag(af.name), af.row) IN
            IF r # "ok"
            THEN LoadReturns(FALSE, <<ins>>)
            ELSE IF af.row < Len(af.data.items)
            THEN /\ af' = [af EXCEPT !.row = @ + 1]
                 /\ pc' = pc
                 /\ events' = Append(events, ins)
            ELSE \E c \in CommitOutcomes :
                 LoadReturns(c = "ok", <<ins, Ev("commit", af.name, "", c, "NULL", 0)>>)
    /\ UNCHANGED <<cli, cn, config, server, orchs, sf, api_sf, logs, ncalls, of, outcome>>

\* dict item assignment results[name] = value
Put(results, name, value) ==
    [n \in DOMAIN results \cup {name} |-> IF n = name THEN value ELSE results[n]]

\* ingest_endpoint returns af.success: to ingest_all_endpoints, which stores it
\* and goes to the next endpoint, or to the caller
IngestEndpointReturn ==
    /\ pc = "ie_return"
    /\ IF af.call = "ingest_all_endpoints"
       THEN /\ af' = [af EXCEPT !.results = Put(@, af.name, af.success), !.idx = @ + 1]
            /\ pc' = "ia_loop"
            /\ outcome' = outcome
       ELSE /\ af' = af
            /\ pc' = "idle"
            /\ outcome' = [kind |-> "returned", ret |-> af.success,
                           results |-> NoResults, msg |-> "NULL"]
    /\ UNCHANGED <<cli, cn, config, server, orchs, sf, api_sf, logs, ncalls, of, events>>

\* ------------------------------------------------------------------ configurations

E1 == [name |-> "e1", enabled |-> TRUE, target_table |-> "RAW.E1"]
E1off == [name |-> "e1", enabled |-> FALSE, target_table |-> "RAW.E1"]
E2 == [name |-> "e2", target_table |-> "RAW.E2"]
E3 == [name |-> "e3"]
StaticHeaders == [h \in {"Accept"} |-> "application/json"]
E1bearer == [name |-> "e1", url |-> "https://api/e1", method |-> "GET",
             params |-> [p \in {"limit"} |-> "10"], headers |-> StaticHeaders,
             auth_type |-> "bearer", bearer_token |-> "CONFIGURED", enabled |-> TRUE,
             target_table |-> "RAW.E1"]
E2key == [name |-> "e2", url |-> "https://api/e2", headers |-> StaticHeaders,
          auth_type |-> "api_key", target_table |-> "RAW.E2"]

RateLimit(n) == [k \in {"retry_attempts", "retry_delay", "requests_per_second"} |->
                    CASE k = "retry_attempts" -> n
                      [] k = "retry_delay" -> 2
                      [] k = "requests_per_second" -> 4]
NoRateLimit == [k \in {} |-> 0]

OrchConfigs ==
    {[endpoints |-> <<>>, rate_limit |-> NoRateLimit],
     [endpoints |-> <<E1off, E2>>, rate_limit |-> RateLimit(2)],
     [endpoints |-> <<E1>>, rate_limit |-> RateLimit(0)]}
OrchBodies == {JList(<<>>), JList(<<RecA>>)}

ApiConfigs ==
    {[endpoints |-> e, rate_limit |-> r] :
        e \in {<<>>, <<E1>>, <<E1off>>, <<E1, E2>>, <<E1off, E2>>, <<E1off, E1>>, <<E3, E2>>,
               <<E1bearer, E2key>>},
        r \in {RateLimit(n) : n \in 0..MaxRetries} \cup {NoRateLimit}}
ApiBodies ==
    {JList(<<>>), JList(<<RecA, RecB>>), Other5, JNumber(5), NoneVal,
     JDict([k \in {"data"} |-> JList(<<RecA>>)]),
     JDict([k \in {"data", "results"} |-> IF k = "data" THEN RecA ELSE JList(<<RecB>>)]),
     JDict([k \in {"results"} |-> JList(<<>>)]),
     JDict([k \in {"results"} |-> RecB])}

\* ------------------------------------------------------------------ specifications

\* ---- get_pipeline_status(run_id=None)

\* the run_id arguments of get_pipeline_status: None (written "None"), the run id
\* of the instance, the run id of an earlier run, a run id with no row
StatusRequests == {"None", "RUN_A", "RUN_EARLIER", "RUN_UNKNOWN"}

\* run_id = run_id or self.run_id
RunIdOr(run_id, own) == IF run_id = "None" THEN own ELSE run_id

\* WHERE RUN_ID = '{run_id}'
WhereAnyRun(row, rid) == TRUE
WhereRunId(row, rid) == row.run_id = rid

\* START_TIME is CURRENT_TIMESTAMP() of the INSERT: the position of the row in the
\* table, which is kept in insertion order
StartTime(i) == i

\* the columns of the SELECT list that the model keeps, for the row at position i
Selected(i) == [name |-> logs[i].name, status |-> logs[i].status,
                msg |-> logs[i].msg, start |-> StartTime(i)]

\* SELECT ... FROM PIPELINE_LOGS WHERE RUN_ID = rid ORDER BY START_TIME, from row i on
RECURSIVE SelectStatus(_, _)
SelectStatus(rid, i) ==
    IF i > Len(logs) THEN <<>>
    ELSE (IF WhereRunId(logs[i], rid) THEN <<Selected(i)>> ELSE <<>>)
         \o SelectStatus(rid, i + 1)

\* return results if results else []
ResultsOrEmpty(results) == IF results # <<>> THEN results ELSE <<>>

\* the whole method: execute_query connects (reusing an open connection), executes
\* the SELECT and fetches all rows; nothing is caught
get_pipeline_status ==
    /\ pc = "idle"
    /\ ncalls < MaxCalls
    /\ ncalls' = ncalls + 1
    /\ \E i \in DOMAIN orchs, run_id \in StatusRequests :
        LET called == [IdleOf EXCEPT !.self = i, !.call = "get_pipeline_status",
                                     !.arg = run_id]
            raised(msg) ==
                /\ of' = called
                /\ outcome' = [kind |-> "raised", ret |-> FALSE, results |-> NoResults,
                               msg |-> msg]
                /\ events' = <<Ev("raise", "none", "", "propagated", msg, 0)>>
        IN \E c \in ConnectOutcomes(sf[i]) :
            IF c # "ok"
            THEN raised(c) /\ sf' = sf
            ELSE /\ sf' = [sf EXCEPT ![i] = "open"]
                 /\ \E r \in ExecuteOutcomes :
                     IF r # "ok"
                     THEN raised(r)
                     ELSE /\ of' = [called EXCEPT !.rows =
                                       ResultsOrEmpty(SelectStatus(RunIdOr(run_id, orchs[i]), 1))]
                          /\ outcome' = [kind |-> "returned", ret |-> FALSE,
                                         results |-> NoResults, msg |-> "NULL"]
                          /\ events' = <<Ev("select", "none", RunIdOr(run_id, orchs[i]),
                                            "ok", "PIPELINE_LOGS", 0)>>
    /\ af' = IdleAf
    /\ api_sf' = "None"
    /\ pc' = "idle"
    /\ UNCHANGED <<cli, cn, config, server, orchs, logs>>

\* SnowflakeConnector.close on a connector whose connection is c
Closed(c) == IF c = "open" THEN "closed" ELSE c

\* pipeline_orchestrator.py main, after the one method it calls on the orchestrator
\* it constructed is over: the exit code of the try block (return after the status
\* was printed, sys.exit(0 if success else 1), sys.exit(0 if all(results.values())
\* else 1), or an exception leaving main), then finally:
\* orchestrator.snowflake.close(), and the process ends.  The APIIngestion instance
\* that run_ingestion created is a local of run_ingestion; main has no reference to it.
MainFinally ==
    /\ pc = "idle"
    /\ Len(orchs) = 1
    /\ ncalls = 1
    /\ of.call # "none"
    /\ sf' = [sf EXCEPT ![of.self] = Closed(@)]
    /\ cli' = [IdleCli EXCEPT
                  !.prog = "pipeline_orchestrator",
                  !.args = CASE of.call = "get_pipeline_status" -> {"--run-id"}
                             [] of.call = "run_full_pipeline" -> {"--step=all"}
                             [] of.call = "run_ingestion" -> {"--step=ingestion"}
                             [] of.call = "run_transformation" -> {"--step=transformation"}
                             [] of.call = "run_validation" -> {"--step=validation"},
                  !.pc = "done",
                  !.sf = Closed(sf[of.self]),
                  !.exit = IF outcome.kind = "raised" THEN 1
                           ELSE IF of.call = "get_pipeline_status" THEN 0
                           ELSE IF of.call = "run_full_pipeline"
                           THEN ExitCode(outcome.results.ingestion
                                               /\ outcome.results.transformation
                                               /\ outcome.results.validation)
                           ELSE ExitCode(outcome.ret)]
    /\ pc' = "exited"
    /\ UNCHANGED <<cn, config, server, orchs, api_sf, logs, ncalls, of, af, outcome, events>>

InitCommon ==
    /\ orchs = <<>>
    /\ sf = <<>>
    /\ api_sf = "None"
    /\ logs = EarlierRows
    /\ ncalls = 0
    /\ pc = "idle"
    /\ of = IdleOf
    /\ af = IdleAf
    /\ outcome = NoOutcome
    /\ events = <<>>
    /\ cn = IdleCn
    /\ cli = IdleCli

\* the orchestrator, called by a program that constructs instances and calls their
\* stage functions and run_full_pipeline
Init ==
    /\ config \in OrchConfigs
    /\ server = OrchBodies
    /\ InitCommon

ApiSteps ==
    \/ IngestAllNext \/ IngestAllReturn \/ IngestEndpointLookup
    \/ FetchRateSleep \/ FetchExhausted \/ FetchRequest \/ FetchRetrySleep
    \/ IngestEndpointFetched \/ LoadEntry \/ LoadConnect \/ LoadCreateTable \/ LoadRows
    \/ IngestEndpointReturn

Next ==
    \/ NewOrchestrator
    \/ run_ingestion \/ run_transformation \/ run_validation \/ run_full_pipeline
    \/ get_pipeline_status
    \/ LogStartConnect \/ LogStartExecute \/ LogStartCommit
    \/ ApiNew \/ ApiSteps
    \/ TransConnect \/ TransCall \/ TransCommit
    \/ ValConnect \/ ValRunAll \/ ValCount
    \/ LogEndConnect \/ LogEndExecute \/ LogEndCommit
    \/ StageReturn
    \/ MainFinally

Spec == Init /\ [][Next]_vars

\* an APIIngestion instance, called directly (ingest_endpoint, ingest_all_endpoints)
InitApi ==
    /\ config \in ApiConfigs
    /\ server = ApiBodies
    /\ InitCommon

NextApi == ingest_endpoint \/ ingest_all_endpoints \/ load_to_snowflake \/ ApiSteps

SpecApi == InitApi /\ [][NextApi]_vars

\* ------------------------------------------------------------------ SnowflakeConnector
\* One connector instance called directly.  cn.conns[i] is the state of the i-th
\* connection the instance established, cn.connection the index held in
\* self.connection (0 for None), cn.trace what the last call did on its
\* connection and cursor.

OtherVars == <<config, server, orchs, sf, api_sf, logs, ncalls, pc, of, af, outcome, events, cli>>

Cv(op, stmt) == [op |-> op, stmt |-> stmt]

\* if self.connection is None or self.connection.is_closed()
NeedsConnectionAlways(c) == TRUE
NeedsConnection(c) == c.connection = 0 \/ c.conns[c.connection] = "closed"

\* the body of connect(): snowflake.connector.connect(...) succeeds (ok) or raises
Connect(c, ok) ==
    IF NeedsConnection(c)
    THEN IF ok
         THEN [c EXCEPT !.conns = Append(@, "open"), !.connection = Len(c.conns) + 1,
                        !.established = TRUE]
         ELSE [c EXCEPT !.raised = TRUE, !.msg = "connect failed"]
    ELSE c

\* entry of a call on the connector
Begin(c, op) == [c EXCEPT !.ncalls = @ + 1, !.op = op, !.raised = FALSE, !.msg = "NULL",
                          !.established = FALSE, !.conn_ret = 0, !.ret = "none",
                          !.trace = <<>>, !.arg = "none", !.file = <<>>]

ConnectCall(op) ==
    /\ cn.ncalls < MaxConnCalls
    /\ \E ok \in BOOLEAN :
        LET c == Connect(Begin(cn, op), ok)
        IN cn' = IF c.raised \/ op = "__enter__" THEN c
                 ELSE [c EXCEPT !.conn_ret = c.connection]
    /\ UNCHANGED OtherVars

\* connect() called by the caller; return self.connection
connect == ConnectCall("connect")

\* __enter__: self.connect(); return self
enter == ConnectCall("__enter__")

\* the queries the caller passes to execute_query
Queries == {<<"SELECT 1">>}

\* finally: cursor.close()
FinallySkipped(trace) == trace
Finally(trace) == Append(trace, Cv("cursor.close", <<>>))

\* the cursors a call opened and did not close
Unreleased(trace) ==
    Cardinality({k \in DOMAIN trace : trace[k].op = "cursor"})
    - Cardinality({k \in DOMAIN trace : trace[k].op = "cursor.close"})

\* the connector after a call that did `trace` on its connection and cursor
Ran(c, trace) == [c EXCEPT !.trace = trace, !.cursors = @ + Unreleased(trace)]

\* an exception leaves the connector method
Raises(c, msg) == [c EXCEPT !.raised = TRUE, !.msg = msg]

\* how the body of execute_query's try block can end
QueryOutcomes(fetch) == {"ok", "execute failed"} \cup (IF fetch THEN {"fetchall failed"} ELSE {})

\* execute_query(query, fetch): connect, cursor(DictCursor), try: execute,
\* fetchall if fetch; finally: cursor.close()
execute_query ==
    /\ cn.ncalls < MaxConnCalls
    /\ \E ok \in BOOLEAN, query \in Queries, fetch \in BOOLEAN :
        \E r \in QueryOutcomes(fetch) :
        LET c == Connect([Begin(cn, "execute_query") EXCEPT
                             !.arg = IF fetch THEN "fetch=True" ELSE "fetch=False"], ok)
            opened == <<Cv("cursor", <<>>)>>
        IN cn' =
            IF c.raised THEN c
            ELSE IF r = "execute failed"
            THEN Raises(Ran(c, Finally(opened \o <<Cv("execute failed", query)>>)), r)
            ELSE IF r = "fetchall failed"
            THEN Raises(Ran(c, Finally(opened \o <<Cv("execute", query),
                                                   Cv("fetchall failed", <<>>)>>)), r)
            ELSE IF fetch
            THEN [Ran(c, Finally(opened \o <<Cv("execute", query), Cv("fetchall", <<>>)>>))
                     EXCEPT !.ret = "rows"]
            ELSE [Ran(c, Finally(opened \o <<Cv("execute", query)>>)) EXCEPT !.ret = "None"]
    /\ UNCHANGED OtherVars

\* a file is its text, cut into the pieces the model tells apart: words of SQL, a
\* comment, blanks, newlines and the separator
Whitespace == {" ", "\n"}
Comments == {"-- comment"}
FileExample == <<"INSERT", ";", " ", "-- comment", "\n", ";", " ", "SELECT 1", ";">>
FileTwoLines == <<"CREATE", ";", "\n", "INSERT", "\n">>
FileBlank == <<" ", ";", ";", "\n">>
Files == {FileExample, FileTwoLines, FileBlank, <<>>}

\* sql.split(';'): the fragments between separators, the last one included
RECURSIVE Split(_, _)
Split(text, fragment) ==
    IF text = <<>> THEN <<fragment>>
    ELSE IF Head(text) = ";" THEN <<fragment>> \o Split(Tail(text), <<>>)
    ELSE Split(Tail(text), Append(fragment, Head(text)))

\* statement.strip()
RECURSIVE Strip(_)
Strip(fragment) ==
    IF fragment = <<>> THEN <<>>
    ELSE IF Head(fragment) \in Whitespace THEN Strip(Tail(fragment))
    ELSE IF fragment[Len(fragment)] \in Whitespace
         THEN Strip(SubSeq(fragment, 1, Len(fragment) - 1))
    ELSE fragment

\* the statements the loop sends to cursor.execute: `if statement:`
RECURSIVE Statements(_)
Statements(fragments) ==
    IF fragments = <<>> THEN <<>>
    ELSE (IF Strip(Head(fragments)) # <<>> THEN <<Strip(Head(fragments))>> ELSE <<>>)
         \o Statements(Tail(fragments))

\* the statement loop and the commit that follows it: `failing` is the position of
\* the statement whose execute raises (0 when none does), `committed` tells whether
\* conn.commit() succeeds
RunStatementsKeepsGoing(stmts, failing, committed) ==
    [k \in 1..Len(stmts) |-> Cv(IF k = failing THEN "execute failed" ELSE "execute", stmts[k])]
    \o <<Cv(IF committed THEN "commit" ELSE "commit failed", <<>>)>>
RunStatements(stmts, failing, committed) ==
    IF failing > 0
    THEN [k \in 1..(failing - 1) |-> Cv("execute", stmts[k])]
         \o <<Cv("execute failed", stmts[failing])>>
    ELSE [k \in 1..Len(stmts) |-> Cv("execute", stmts[k])]
         \o <<Cv(IF committed THEN "commit" ELSE "commit failed", <<>>)>>

\* execute_file(file_path): connect, cursor(), try: open and read the file,
\* execute each statement, commit; finally: cursor.close()
execute_file ==
    /\ cn.ncalls < MaxConnCalls
    /\ \E ok \in BOOLEAN, found \in BOOLEAN, file \in Files, committed \in BOOLEAN :
        LET c == Connect(Begin(cn, "execute_file"), ok)
            stmts == Statements(Split(file, <<>>))
            opened == <<Cv("cursor", <<>>)>>
        IN \E failing \in 0..Len(stmts) :
            cn' =
                IF c.raised THEN c
                ELSE IF ~found
                THEN Raises(Ran(c, Finally(opened)), "FileNotFoundError")
                ELSE LET done == Ran([c EXCEPT !.file = file],
                                     Finally(opened \o RunStatements(stmts, failing, committed)))
                     IN IF failing > 0 THEN Raises(done, "execute failed")
                        ELSE IF ~committed THEN Raises(done, "commit failed")
                        ELSE [done EXCEPT !.ret = "None"]
    /\ UNCHANGED OtherVars

\* the body of close(): if self.connection and not self.connection.is_closed()
CloseUnguarded(c) ==
    [c EXCEPT !.connection = 0, !.trace = <<Cv("connection.close", <<>>)>>]
Close(c) ==
    IF c.connection # 0 /\ c.conns[c.connection] = "open"
    THEN [c EXCEPT !.conns[c.connection] = "closed", !.connection = 0,
                   !.trace = <<Cv("connection.close", <<>>)>>]
    ELSE c

CloseCall(op) ==
    /\ cn.ncalls < MaxConnCalls
    /\ cn' = [Close(Begin(cn, op)) EXCEPT !.ret = "None"]
    /\ UNCHANGED OtherVars

close == CloseCall("close")

\* __exit__: self.close()
exit == CloseCall("__exit__")

\* connect() hands the connection object itself to the caller, who may close it
\* (the case connect()'s is_closed() test is for); self.connection keeps the
\* closed object
CallerClosesConnection ==
    /\ cn.ncalls < MaxConnCalls
    /\ cn.connection # 0
    /\ cn.conns[cn.connection] = "open"
    /\ cn' = [Begin(cn, "connection.close") EXCEPT !.conns[cn.connection] = "closed"]
    /\ UNCHANGED OtherVars

InitConn ==
    /\ config = [endpoints |-> <<>>, rate_limit |-> NoRateLimit]
    /\ server = {}
    /\ InitCommon

NextConn ==
    \/ connect \/ enter \/ execute_query \/ execute_file
    \/ close \/ exit \/ CallerClosesConnection

SpecConn == InitConn /\ [][NextConn]_vars

\* ------------------------------------------------------------------ command-line programs
\* One process at a time: file_ingestion.py, api_ingestion.py, pipeline_orchestrator.py
\* or run_setup.py.  cli.ops lists the operations the program performed with how
\* each ended; cli.sf is the connection of the connector the program created.  The
\* methods of APIIngestion and PipelineOrchestrator that a main calls are taken
\* here by what they can hand back to main: True, False or an exception.

NonCliVars == <<config, server, orchs, sf, api_sf, logs, ncalls, pc, of, af, outcome, events, cn>>

Op(op, st) == [op |-> op, st |-> st]

\* a program is started when none is running
Start(prog, args, at) ==
    /\ cli.pc \in {"none", "done"}
    /\ cli' = [IdleCli EXCEPT !.prog = prog, !.args = args, !.pc = at]
    /\ UNCHANGED NonCliVars

\* what a called method hands back to main
CallResults == {"True", "False", "raised"}
StOf(r) == IF r = "True" THEN "ok" ELSE IF r = "False" THEN "failed" ELSE "raised"
OkSt(ok) == IF ok THEN "ok" ELSE "failed"

\* the connector after a method that may have connected
MayConnect(c) == {c, "open"}

\* main's try block ends with sys.exit(code), or with an exception leaving main
\* (exit code 1); the finally clause comes next
Exits(c, code) == [c EXCEPT !.exit = code, !.pc = "finally"]

\* ---- file_ingestion.py main
FileArgs == SUBSET {"--trigger-pipe", "--s3-bucket --s3-key"}

\* parse the arguments; if not os.path.exists(args.file_path): sys.exit(1)
file_ingestion_main ==
    /\ cli.pc \in {"none", "done"}
    /\ \E args \in FileArgs, exists \in BOOLEAN :
        cli' = IF exists
               THEN [IdleCli EXCEPT !.prog = "file_ingestion", !.args = args, !.pc = "upload"]
               ELSE [IdleCli EXCEPT !.prog = "file_ingestion", !.args = args, !.pc = "done",
                                    !.exit = 1]
    /\ UNCHANGED NonCliVars

\* success = ingestion.upload_to_s3(...); sys.exit(0 if success else 1)
UploadToS3 ==
    /\ cli.prog = "file_ingestion" /\ cli.pc = "upload"
    /\ "--s3-bucket --s3-key" \in cli.args
    /\ \E ok \in BOOLEAN :
        cli' = Exits([cli EXCEPT !.success = ok,
                                 !.ops = Append(@, Op("upload_to_s3", OkSt(ok)))],
                     ExitCode(ok))
    /\ UNCHANGED NonCliVars

\* what main does after upload_to_stage returned: `if success and
\* args.trigger_pipe: ingestion.trigger_snowpipe()`, else the sys.exit
AfterUpload(c) ==
    IF c.success /\ "--trigger-pipe" \in c.args
    THEN [c EXCEPT !.pc = "trigger"]
    ELSE Exits(c, ExitCode(c.success))

\* success = ingestion.upload_to_stage(...): connect, cursor, execute PUT; any
\* exception is caught and gives False
UploadToStage ==
    /\ cli.prog = "file_ingestion" /\ cli.pc = "upload"
    /\ "--s3-bucket --s3-key" \notin cli.args
    /\ \E c \in ConnectOutcomes(cli.sf), e \in ExecuteOutcomes :
        LET ok == c = "ok" /\ e = "ok" IN
        cli' = AfterUpload([cli EXCEPT !.success = ok,
                                       !.sf = IF c = "ok" THEN "open" ELSE @,
                                       !.ops = Append(@, Op("upload_to_stage", OkSt(ok)))])
    /\ UNCHANGED NonCliVars

\* ingestion.trigger_snowpipe(): connect, cursor, execute ALTER PIPE ... REFRESH;
\* any exception is caught and gives False; main drops the value and goes on to
\* sys.exit(0 if success else 1)
TriggerSnowpipe ==
    /\ cli.prog = "file_ingestion" /\ cli.pc = "trigger"
    /\ \E c \in ConnectOutcomes(cli.sf), e \in ExecuteOutcomes :
        LET ok == c = "ok" /\ e = "ok" IN
        cli' = Exits([cli EXCEPT !.sf = IF c = "ok" THEN "open" ELSE @,
                                 !.ops = Append(@, Op("trigger_snowpipe", OkSt(ok)))],
                     ExitCode(cli.success))
    /\ UNCHANGED NonCliVars

\* ---- api_ingestion.py main
ApiArgs == SUBSET {"--endpoint", "--all"}
ApiNames == <<"e1", "e2">>

api_ingestion_main == \E args \in ApiArgs : Start("api_ingestion", args, "call")

\* if args.endpoint: success = ingestion.ingest_endpoint(args.endpoint);
\* sys.exit(0 if success else 1)
ApiMainEndpoint ==
    /\ cli.prog = "api_ingestion" /\ cli.pc = "call"
    /\ "--endpoint" \in cli.args
    /\ \E r \in CallResults, c \in MayConnect(cli.sf) :
        cli' = Exits([cli EXCEPT !.sf = c, !.ops = Append(@, Op("ingest_endpoint", StOf(r)))],
                     ExitCode(r = "True"))
    /\ UNCHANGED NonCliVars

\* elif args.all: results = ingestion.ingest_all_endpoints(); failed = the names
\* whose result is false; sys.exit(1) if failed else sys.exit(0)
ApiMainAll ==
    /\ cli.prog = "api_ingestion" /\ cli.pc = "call"
    /\ "--endpoint" \notin cli.args /\ "--all" \in cli.args
    /\ \E c \in MayConnect(cli.sf) :
        \/ \E n \in 0..Len(ApiNames) : \E results \in [1..n -> BOOLEAN] :
              LET failed == {k \in 1..n : ~results[k]} IN
              cli' = Exits([cli EXCEPT !.sf = c,
                                       !.ops = [k \in 1..n |->
                                                   Op(ApiNames[k], OkSt(results[k]))]],
                           IF failed # {} THEN 1 ELSE 0)
        \/ cli' = Exits([cli EXCEPT !.sf = c,
                                    !.ops = <<Op("ingest_all_endpoints", "raised")>>], 1)
    /\ UNCHANGED NonCliVars

\* else: parser.print_help(); sys.exit(1)
ApiMainHelp ==
    /\ cli.prog = "api_ingestion" /\ cli.pc = "call"
    /\ cli.args = {}
    /\ cli' = Exits(cli, 1)
    /\ UNCHANGED NonCliVars

\* ---- pipeline_orchestrator.py main
Steps == {"ingestion", "transformation", "validation", "all"}
OrchArgs == {{"--step=" \o step} : step \in Steps} \cup {{"--run-id"}, {"--run-id", "--step=all"}}
StageKeys == <<"ingestion", "transformation", "validation">>

orchestrator_main == \E args \in OrchArgs : Start("pipeline_orchestrator", args, "call")

\* if args.run_id: status = orchestrator.get_pipeline_status(args.run_id);
\* print(status); return
OrchMainStatus ==
    /\ cli.prog = "pipeline_orchestrator" /\ cli.pc = "call"
    /\ "--run-id" \in cli.args
    /\ \E r \in {"True", "raised"}, c \in ConnectOutcomes(cli.sf) :
        cli' = IF c # "ok"
               THEN Exits([cli EXCEPT !.ops = <<Op("get_pipeline_status", "raised")>>], 1)
               ELSE Exits([cli EXCEPT !.sf = "open",
                                      !.ops = <<Op("get_pipeline_status", StOf(r))>>],
                          ExitCode(r = "True"))
    /\ UNCHANGED NonCliVars

\* if args.step == 'all': results = orchestrator.run_full_pipeline();
\* sys.exit(0 if all(results.values()) else 1).  The stages before position n
\* succeeded; stage n failed or raised (n = 4: none did)
OrchMainAll ==
    /\ cli.prog = "pipeline_orchestrator" /\ cli.pc = "call"
    /\ cli.args = {"--step=all"}
    /\ \E n \in 1..4, r \in {"False", "raised"}, c \in MayConnect(cli.sf) :
        LET results == [k \in 1..3 |-> k < n] IN
        cli' = Exits([cli EXCEPT !.sf = c,
                                 !.ops = [k \in 1..(n - 1) |-> Op(StageKeys[k], "ok")]
                                         \o (IF n <= 3 THEN <<Op(StageKeys[n], StOf(r))>>
                                             ELSE <<>>)],
                     IF n <= 3 /\ r = "raised" THEN 1
                     ELSE ExitCode(\A k \in 1..3 : results[k]))
    /\ UNCHANGED NonCliVars

\* elif args.step == <stage>: success = orchestrator.run_<stage>();
\* sys.exit(0 if success else 1)
OrchMainStep ==
    /\ cli.prog = "pipeline_orchestrator" /\ cli.pc = "call"
    /\ \E k \in 1..3 :
        /\ cli.args = {"--step=" \o StageKeys[k]}
        /\ \E r \in CallResults, c \in MayConnect(cli.sf) :
            cli' = Exits([cli EXCEPT !.sf = c, !.ops = <<Op(StageKeys[k], StOf(r))>>],
                         ExitCode(r = "True"))
    /\ UNCHANGED NonCliVars

\* ---- run_setup.py
SqlFiles == <<"01_setup_warehouse.sql", "02_setup_database_schema.sql",
              "03_setup_file_formats.sql", "04_setup_external_stage.sql",
              "05_setup_snowpipe.sql", "06_setup_validation_tables.sql",
              "07_transformation_procedures.sql", "08_validation_procedures.sql",
              "10_orchestration_procedures.sql", "09_setup_tasks.sql",
              "11_performance_optimization.sql">>

\* connector = SnowflakeConnector(); the loop starts at the first listed file
run_setup ==
    /\ cli.pc \in {"none", "done"}
    /\ cli' = [IdleCli EXCEPT !.prog = "run_setup", !.pc = "script", !.idx = 1]
    /\ UNCHANGED NonCliVars

\* the loop after one script: the next script, or, when execute_file raised, the
\* except clause with its sys.exit(1)
AfterScriptKeepsGoing(c, st) ==
    [c EXCEPT !.ops = Append(@, Op(SqlFiles[c.idx], st)), !.idx = @ + 1]
AfterScript(c, st) ==
    IF st = "failed"
    THEN Exits([c EXCEPT !.ops = Append(@, Op(SqlFiles[c.idx], st))], 1)
    ELSE [c EXCEPT !.ops = Append(@, Op(SqlFiles[c.idx], st)), !.idx = @ + 1]

\* how connector.execute_file can end once connected
FileOutcomes == {"ok", "execute failed", "commit failed"}

\* one turn of the loop: if file_path.exists(): connector.execute_file(...),
\* else the warning
SetupScript ==
    /\ cli.prog = "run_setup" /\ cli.pc = "script"
    /\ cli.idx <= Len(SqlFiles)
    /\ \E exists \in BOOLEAN :
        IF ~exists
        THEN cli' = AfterScript(cli, "skipped")
        ELSE \E c \in ConnectOutcomes(cli.sf), r \in FileOutcomes :
                cli' = IF c # "ok" THEN AfterScript(cli, "failed")
                       ELSE AfterScript([cli EXCEPT !.sf = "open"],
                                        IF r = "ok" THEN "ok" ELSE "failed")
    /\ UNCHANGED NonCliVars

\* the loop is over: the try block ends and run_setup returns after the finally
SetupCompleted ==
    /\ cli.prog = "run_setup" /\ cli.pc = "script"
    /\ cli.idx > Len(SqlFiles)
    /\ cli' = Exits(cli, 0)
    /\ UNCHANGED NonCliVars

\* finally: <connector>.close(), then the process ends with its exit code
CliFinally ==
    /\ cli.pc = "finally"
    /\ cli' = [cli EXCEPT !.sf = IF @ = "open" THEN "closed" ELSE @, !.pc = "done"]
    /\ UNCHANGED NonCliVars

InitCli ==
    /\ config = [endpoints |-> <<>>, rate_limit |-> NoRateLimit]
    /\ server = {}
    /\ InitCommon

NextCli ==
    \/ file_ingestion_main \/ UploadToS3 \/ UploadToStage \/ TriggerSnowpipe
    \/ api_ingestion_main \/ ApiMainEndpoint \/ ApiMainAll \/ ApiMainHelp
    \/ orchestrator_main \/ OrchMainStatus \/ OrchMainAll \/ OrchMainStep
    \/ run_setup \/ SetupScript \/ SetupCompleted
    \/ CliFinally

SpecCli == InitCli /\ [][NextCli]_vars

\* ------------------------------------------------------------------ properties

Before(j) == 1..(j - 1)
After(j) == (j + 1)..Len(events)

IsInsert(e, stage) == e.op = "insert" /\ e.who = stage
IsReturn(e, stage, value) == e.op = "return" /\ e.who = stage /\ e.st = Bool(value)

\* what the body of a stage does, as opposed to its two log writes
StageLogicOps == {"call", "query", "api_new", "fetch", "sleep", "http", "fetched",
                  "connect", "create_table", "dumps", "insert_row", "commit"}
SqlOps == {"insert", "update", "call", "query"}
WarehouseFailures == {"connect failed", "execute failed", "commit failed"}

\* the stage an event of an orchestrator call belongs to
StageOf(e) == IF e.op \in {"insert", "update", "call", "query", "return", "raise", "api_new"}
              THEN e.who ELSE "INGESTION"

Executed(stage) == \E j \in DOMAIN events : events[j].op = "return" /\ events[j].who = stage
Succeeded(stage) == \E j \in DOMAIN events : IsReturn(events[j], stage, TRUE)

\* the rows of the log table for a run and a stage
RowsOf(rid, stage) == {i \in DOMAIN logs : logs[i].run_id = rid /\ logs[i].name = stage}
Logged(rid, stage, status) ==
    /\ RowsOf(rid, stage) # {}
    /\ \A i \in RowsOf(rid, stage) : logs[i].status = status

FullCallOver == pc = "idle" /\ of.call = "run_full_pipeline"

\* C1: in run_full_pipeline the start-log inserts come in the order ingestion,
\* transformation, validation; a stage other than the first is started only after
\* the stage before it returned True; once a stage has returned False nothing more
\* is inserted, called or fetched.
C1_StagesInOrderStopAtFailure ==
    of.call = "run_full_pipeline" =>
        \A j \in DOMAIN events :
            LET e == events[j] IN
            /\ e.op = "insert" =>
                /\ \A i \in Before(j) :
                       events[i].op = "insert" => StageNo(events[i].who) < StageNo(e.who)
                /\ StageNo(e.who) > 1 =>
                       \E i \in Before(j) : IsReturn(events[i], Stages[StageNo(e.who) - 1], TRUE)
            /\ e.op \in StageLogicOps \cup {"insert", "update"} =>
                   ~ \E i \in Before(j) : events[i].op = "return" /\ events[i].st = Bool(FALSE)

C1_Witness ==
    /\ FullCallOver
    /\ Succeeded("INGESTION")
    /\ \E j \in DOMAIN events : IsReturn(events[j], "TRANSFORMATION", FALSE)

\* C2: when run_full_pipeline returns, a stage's entry of the mapping is true exactly
\* when the stage ran and returned True; after the first false entry every later
\* stage is false and did not run; the three entries are all true exactly when the
\* three stages' log rows of this run are SUCCESS; a FAILED ingestion row comes with
\* three false entries.
C2_ResultMapping ==
    (FullCallOver /\ outcome.kind = "returned") =>
        LET r == outcome.results
            key == <<"ingestion", "transformation", "validation">>
            rid == orchs[of.self] IN
        /\ \A k \in 1..3 : r[key[k]] <=> Succeeded(Stages[k])
        /\ \A k \in 1..3 : ~r[key[k]] =>
               \A m \in (k + 1)..3 : ~r[key[m]] /\ ~Executed(Stages[m])
        /\ (r.ingestion /\ r.transformation /\ r.validation)
               <=> \A k \in 1..3 : Logged(rid, Stages[k], "SUCCESS")
        /\ Logged(rid, "INGESTION", "FAILED") => r = NoResults

C2_Witness ==
    /\ FullCallOver
    /\ outcome.kind = "returned"
    /\ outcome.results = [ingestion |-> TRUE, transformation |-> TRUE, validation |-> TRUE]

\* C3: no warehouse failure (connect, execute, commit) raised while a stage function
\* or run_full_pipeline runs leaves the call: each one is caught.
C3_WarehouseFailureNeverPropagates ==
    \A j \in DOMAIN events :
        (events[j].op = "raise" /\ events[j].msg \in WarehouseFailures)
            => events[j].st = "caught"

\* C4: once the call is over, every error raised by a stage body (in the try block,
\* before log_pipeline_end) was followed by an update of that stage's row to FAILED
\* with the error's message and by the stage function returning False, and the call
\* did not end with an exception.
C4_BodyErrorLoggedAndFalse ==
    pc = "idle" =>
        \A j \in DOMAIN events :
            (events[j].op = "raise" /\ events[j].st = "caught" /\ events[j].n = 0) =>
                /\ outcome.kind # "raised"
                /\ \E k \in After(j) :
                    /\ events[k].op = "update"
                    /\ events[k].who = events[j].who
                    /\ events[k].st = "FAILED"
                    /\ events[k].msg = events[j].msg
                    /\ \E m \in After(k) : IsReturn(events[m], events[j].who, FALSE)

\* C5: the run id of a constructed instance never changes, and every log insert, log
\* update, procedure call and validation query of a call carries the run id of the
\* instance the call was made on; so does every row added to the log table.
C5_RunIdFixedAndUsedEverywhere ==
    [][ /\ \A i \in DOMAIN orchs : i \in DOMAIN orchs' /\ orchs'[i] = orchs[i]
        /\ \A j \in DOMAIN events' :
               events'[j].op \in SqlOps => events'[j].rid = orchs'[of'.self]
        /\ Len(logs') > Len(logs) => logs'[Len(logs')].run_id = orchs'[of'.self]
      ]_vars

C5_Witness ==
    /\ FullCallOver
    /\ ncalls = 2
    /\ \E j \in DOMAIN events : events[j].op = "update" /\ events[j].who = "VALIDATION"
    /\ \E j \in DOMAIN events : events[j].op = "call" /\ events[j].who = "TRANSFORMATION"
    /\ \E i \in DOMAIN logs : logs[i].run_id # orchs[1]
    /\ Cardinality(RowsOf(orchs[1], "INGESTION")) = 2

\* C6: in a call on the orchestrator, every end-log update comes after a start-log
\* insert (status IN_PROGRESS) with the same run id and stage name; every piece of
\* stage logic comes after its stage's start-log insert; and no logic of a stage
\* comes after an end-log update of that stage.
C6_StartLogThenLogicThenEndLog ==
    of.call # "none" =>
        \A j \in DOMAIN events :
            LET e == events[j] IN
            /\ e.op = "update" =>
                   \E i \in Before(j) :
                       /\ IsInsert(events[i], e.who)
                       /\ events[i].rid = e.rid
                       /\ events[i].st = "IN_PROGRESS"
            /\ e.op \in StageLogicOps =>
                /\ \E i \in Before(j) : IsInsert(events[i], StageOf(e))
                /\ ~ \E i \in Before(j) : events[i].op = "update" /\ events[i].who = StageOf(e)

C6_Witness ==
    /\ pc = "return"
    /\ of.stage = "VALIDATION"
    /\ \E j \in DOMAIN events : events[j].op = "query" /\ events[j].n = 2
    /\ events[Len(events)].op = "update"
    /\ events[Len(events)].msg = ChecksMessage(2)

\* C7: the log table holds one row per (run id, stage name) pair, no row is updated
\* more than once, and when no call is running every row has had its one update.
C7_OneRowPerPairUpdatedOnce ==
    /\ \A i, j \in DOMAIN logs :
           (logs[i].run_id = logs[j].run_id /\ logs[i].name = logs[j].name) => i = j
    /\ \A i \in DOMAIN logs : logs[i].updates <= 1
    /\ pc = "idle" => \A i \in DOMAIN logs : logs[i].updates = 1 /\ logs[i].status # "IN_PROGRESS"

\* ---- _fetch_api_data

Max(S) == CHOOSE x \in S : \A y \in S : x >= y

\* the events of the fetch in progress or just finished: those after its entry
FetchStart == Max({0} \cup {j \in DOMAIN events : events[j].op = "fetch"})
FetchSeg == SubSeq(events, FetchStart + 1, Len(events))
Https(seg) == {j \in DOMAIN seg : seg[j].op = "http"}
FetchReturned == pc = "ie_fetched" /\ FetchStart > 0

\* the events of a fetch of n attempts that all fail: rate-limit sleep and request
\* n times, a retry sleep between two requests, then the return of None
AllFailEvent(name, p, n) ==
    IF p = 3 * n \/ n = 0 THEN Ev("fetched", name, "", "None", "NULL", 0)
    ELSE CASE (p - 1) % 3 = 0 ->
                Ev("sleep", name, "", "rate", "1/n",
                   Get(config.rate_limit, "requests_per_second", DefaultRequestsPerSecond))
           [] (p - 1) % 3 = 1 -> Ev("http", name, "", "transport", "NULL", ((p - 1) \div 3) + 1)
           [] (p - 1) % 3 = 2 ->
                Ev("sleep", name, "", "retry", "n",
                   Get(config.rate_limit, "retry_delay", DefaultRetryDelay))
AllFail(name, n) == [p \in 1..(IF n = 0 THEN 1 ELSE 3 * n) |-> AllFailEvent(name, p, n)]

ConfiguredAttempts == Get(config.rate_limit, "retry_attempts", DefaultRetryAttempts)

\* C8: a fetch whose HTTP attempts all failed with a transport error made exactly
\* retry_attempts requests, each after a rate-limit sleep, with one retry_delay sleep
\* between two consecutive requests and none after the last, and returned None.
C8_AllAttemptsFail ==
    (FetchReturned /\ \A j \in Https(FetchSeg) : FetchSeg[j].st = "transport") =>
        /\ FetchSeg = AllFail(af.name, ConfiguredAttempts)
        /\ Cardinality(Https(FetchSeg)) = ConfiguredAttempts
        /\ af.data = NoneVal
        /\ af.data # JList(<<>>)

C8_Witness ==
    /\ FetchReturned
    /\ ConfiguredAttempts = 3
    /\ Cardinality(Https(FetchSeg)) = 3
    /\ \A j \in Https(FetchSeg) : FetchSeg[j].st = "transport"

\* C9: a fetch never makes more than retry_attempts requests, numbered 1, 2, ... in
\* order, and never more than three events per attempt, and it can always take a
\* step until it returns; when a request succeeds it is the last event before the
\* return, every request before it failed, and the fetch returns the normalized
\* body of that response.
C9_BoundedAttemptsFirstSuccessReturns ==
    FetchStart > 0 /\ pc \in {"f_loop", "f_request", "f_retry", "ie_fetched"} =>
        LET seg == FetchSeg IN
        /\ Cardinality(Https(seg)) <= ConfiguredAttempts
        /\ \A j \in Https(seg) : seg[j].n = Cardinality({i \in Https(seg) : i <= j})
        /\ Len(seg) <= 3 * ConfiguredAttempts + 1
        /\ pc # "ie_fetched" =>
               ENABLED (FetchRateSleep \/ FetchExhausted \/ FetchRequest \/ FetchRetrySleep)
        /\ \A j \in Https(seg) : seg[j].st = "ok" =>
               /\ pc = "ie_fetched"
               /\ j = Len(seg) - 1
               /\ \A i \in Https(seg) : i < j => seg[i].st # "ok"
               /\ af.data = Normalize(af.response)
               /\ IsList(af.data)

C9_Witness ==
    /\ FetchReturned
    /\ Cardinality(Https(FetchSeg)) = 2
    /\ FetchSeg[Len(FetchSeg) - 1].op = "http"
    /\ FetchSeg[Len(FetchSeg) - 1].st = "ok"
    /\ ConfiguredAttempts = 3
    /\ af.response = JDict([k \in {"data"} |-> JList(<<RecA>>)])
    /\ af.data = JList(<<RecA>>)

\* C10: every HTTP request, first attempt or retry, comes right after a rate-limit
\* sleep of 1/requests_per_second.
C10_RateLimitSleepBeforeEveryRequest ==
    \A j \in DOMAIN events :
        events[j].op = "http" =>
            /\ j > 1
            /\ events[j - 1].op = "sleep"
            /\ events[j - 1].st = "rate"
            /\ events[j - 1].n = Get(config.rate_limit, "requests_per_second", DefaultRequestsPerSecond)

C10_Witness ==
    /\ \E j \in DOMAIN events :
        /\ events[j].op = "http"
        /\ events[j].n = 2
        /\ events[j - 1].op = "sleep"
        /\ events[j - 1].st = "rate"
        /\ events[j - 2].st = "retry"
    /\ requests_per_second = 4

\* ---- response normalization

FetchSucceeded ==
    /\ FetchReturned
    /\ Len(FetchSeg) >= 2
    /\ FetchSeg[Len(FetchSeg) - 1].op = "http"
    /\ FetchSeg[Len(FetchSeg) - 1].st = "ok"

\* C11: the value a successful fetch returns for the decoded body b: b itself when b
\* is a list; for a dict with a 'data' key the value of 'data', as it is when it is a
\* list and as a one-element list otherwise, whether or not there is a 'results'
\* key; for a dict with 'results' and no 'data' the value of 'results' under the same
\* rule; any other dict as a one-element list; the number 5 as [{'raw_data': '5'}]
\* and null as [{'raw_data': 'None'}].
C11_Normalization ==
    FetchSucceeded =>
        LET b == af.response
            d == af.data
            OneOrList(v) == IF v.t = "list" THEN v ELSE [t |-> "list", items |-> <<v>>]
            Raw(str) == [t |-> "list",
                         items |-> <<[t |-> "dict",
                                      keys |-> [k \in {"raw_data"} |-> [t |-> "scalar", s |-> str]]]>>] IN
        /\ d.t = "list"
        /\ b.t = "list" => d = b
        /\ b.t = "dict" =>
            IF "data" \in DOMAIN b.keys THEN d = OneOrList(b.keys["data"])
            ELSE IF "results" \in DOMAIN b.keys THEN d = OneOrList(b.keys["results"])
            ELSE d = [t |-> "list", items |-> <<b>>]
        /\ b = [t |-> "number", n |-> 5] => d = Raw("5")
        /\ b = [t |-> "None"] => d = Raw("None")
        /\ b.t \in {"list", "dict", "number", "None"}

C11_Witness ==
    /\ FetchSucceeded
    /\ af.response.t = "dict"
    /\ "data" \in DOMAIN af.response.keys
    /\ "results" \in DOMAIN af.response.keys
    /\ af.response.keys["data"] = RecA
    /\ af.data = JList(<<RecA>>)

\* ---- ingest_endpoint: lookup

\* every configured endpoint of that name, if there is one, has enabled: false
NoEnabledEndpoint(name) ==
    \A i \in DOMAIN config.endpoints :
        config.endpoints[i].name = name =>
            ("enabled" \in DOMAIN config.endpoints[i] /\ config.endpoints[i].enabled = FALSE)

\* C12: ingest_endpoint called with a name that is not configured, or configured
\* only with enabled: false, goes from the lookup straight to `return False`: no
\* request, no sleep, no warehouse operation (the trace of the call stays empty, the
\* connections and the log table are untouched), and the caller gets False.
C12_MissingOrDisabledFailsAtOnce ==
    [][ (af.call = "ingest_endpoint" /\ NoEnabledEndpoint(af.name)) =>
            /\ pc = "ie_lookup" =>
                   /\ pc' = "ie_return"
                   /\ af'.success = FALSE
                   /\ events = <<>>
                   /\ UNCHANGED <<events, api_sf, sf, logs>>
            /\ pc = "ie_return" =>
                   /\ pc' = "idle"
                   /\ outcome'.kind = "returned"
                   /\ outcome'.ret = FALSE
                   /\ UNCHANGED <<events, api_sf, sf, logs>>
      ]_vars

C12_Witness ==
    /\ pc = "idle"
    /\ af.call = "ingest_endpoint"
    /\ af.name = "e1"
    /\ config.endpoints = <<E1off, E2>>
    /\ outcome.kind = "returned"
    /\ outcome.ret = FALSE
    /\ events = <<>>

\* ---- ingest_all_endpoints

EnabledIndexes ==
    {i \in DOMAIN config.endpoints :
        "enabled" \in DOMAIN config.endpoints[i] => config.endpoints[i].enabled}
Loaded(name) ==
    \E j \in DOMAIN events :
        events[j].op = "commit" /\ events[j].who = name /\ events[j].st = "ok"

\* C13: once a call of ingest_all_endpoints is over it has returned a mapping with
\* one entry per enabled endpoint name and no other entry, the configuration of
\* every enabled endpoint has been fetched, whatever happened to the endpoints
\* before it, and an entry is true exactly when that endpoint's batch was loaded.
C13_EveryEnabledEndpointAttempted ==
    (pc = "idle" /\ af.call = "ingest_all_endpoints" /\ of.call = "none") =>
        /\ outcome.kind = "returned"
        /\ DOMAIN af.results = {config.endpoints[i].name : i \in EnabledIndexes}
        /\ \A i \in EnabledIndexes :
               \E j \in DOMAIN events : events[j].op = "fetch" /\ events[j].n = i
        /\ \A name \in DOMAIN af.results : af.results[name] <=> Loaded(name)

\* ---- _load_to_snowflake

\* C14: _load_to_snowflake entered with None or with an empty list returns False at
\* once: no connect, no CREATE TABLE, no INSERT, no commit (the trace of the call
\* and the connections do not change); and ingest_endpoint, after a fetch that
\* returned an empty list, returns False with nothing done after the fetch.
C14_EmptyLoadIsNoOp ==
    [][ LET empty == af.data = [t |-> "None"] \/ af.data = [t |-> "list", items |-> <<>>] IN
        /\ (pc = "ld_entry" /\ empty) =>
               /\ pc' = "ie_return"
               /\ af'.success = FALSE
               /\ UNCHANGED <<events, api_sf, sf, logs>>
        /\ (pc = "ie_return" /\ af.call = "ingest_endpoint"
                /\ af.data = [t |-> "list", items |-> <<>>]) =>
               /\ pc' = "idle"
               /\ outcome'.kind = "returned"
               /\ outcome'.ret = FALSE
               /\ events'[Len(events')].op = "fetched"
               /\ UNCHANGED <<api_sf, sf, logs>>
      ]_vars

C14_Witness ==
    /\ pc = "idle"
    /\ af.call = "ingest_endpoint"
    /\ af.response = JDict([k \in {"results"} |-> JList(<<>>)])
    /\ af.data = JList(<<>>)
    /\ outcome.kind = "returned"
    /\ outcome.ret = FALSE
    /\ events[Len(events)].op = "fetched"

\* the events of the load in progress or just finished: those after the fetch
LoadStart == Max({0} \cup {j \in DOMAIN events : events[j].op = "fetched"})
LoadSeg == SubSeq(events, LoadStart + 1, Len(events))

\* C15: when _load_to_snowflake returns for a non-empty batch: if the insert of a
\* record failed, no record after it was inserted, none of the batch is in the
\* table and False is returned; True is returned exactly when every record was
\* inserted, once, with the run tag, and the batch committed; and that is what
\* happens unless a warehouse operation of the load (connect, CREATE TABLE, INSERT,
\* commit) failed.
C15_BatchAllOrNothing ==
    (pc = "ie_return" /\ af.data.t = "list" /\ af.data.items # <<>>) =>
        LET seg == LoadSeg
            Ins == {j \in DOMAIN seg : seg[j].op = "insert_row"}
            Done == {j \in Ins : seg[j].st = "ok"}
            committed == \E j \in DOMAIN seg : seg[j].op = "commit" /\ seg[j].st = "ok"
            warehouseFailed ==
                \E j \in DOMAIN seg :
                    /\ seg[j].op \in {"connect", "create_table", "insert_row", "commit"}
                    /\ seg[j].st # "ok" IN
        /\ \A j \in Ins \ Done : ~af.success /\ Done = {} /\ ~ \E i \in Ins : i > j
        /\ af.success <=>
               /\ committed
               /\ Cardinality(Done) = Len(af.data.items)
               /\ \A j \in Done : seg[j].msg = "API_" \o af.name
        /\ ~warehouseFailed => af.success

\* ---- the stage bodies

\* the exceptions raised while a stage function ran
RaisedIn(stage) == {j \in DOMAIN events : events[j].op = "raise" /\ events[j].who = stage}

CallOver == pc = "idle" /\ of.call # "none"

\* ingest_all_endpoints returned its mapping to run_ingestion
MappingReturned == af.call = "ingest_all_endpoints" /\ af.idx > Len(config.endpoints)

IngestionOutcome(ok) ==
    /\ \E j \in DOMAIN events : IsReturn(events[j], "INGESTION", ok)
    /\ Logged(orchs[of.self], "INGESTION", IF ok THEN "SUCCESS" ELSE "FAILED")

TransCalls == SelectSeq(events, LAMBDA e : e.op = "call" /\ e.who = "TRANSFORMATION")
AllThreeRan == Len(TransCalls) = 3 /\ \A k \in 1..3 : TransCalls[k].st = "ok"
SomeProcedureRaised == \E k \in DOMAIN TransCalls : TransCalls[k].st = "failed"

\* the calls made are a prefix of CLEAN_RAW_DATA, REMOVE_DUPLICATES,
\* APPLY_BUSINESS_TRANSFORMS, each with the instance's run id, each after the
\* success of the ones before it
TransCallsInOrder ==
    /\ Len(TransCalls) <= 3
    /\ \A k \in DOMAIN TransCalls :
        /\ TransCalls[k].msg =
               <<"CLEAN_RAW_DATA", "REMOVE_DUPLICATES", "APPLY_BUSINESS_TRANSFORMS">>[k]
        /\ TransCalls[k].rid = orchs[of.self]
        /\ \A i \in 1..(k - 1) : TransCalls[i].st = "ok"

TransformationOutcome(ok) ==
    /\ \E j \in DOMAIN events : IsReturn(events[j], "TRANSFORMATION", ok)
    /\ Logged(orchs[of.self], "TRANSFORMATION", IF ok THEN "SUCCESS" ELSE "FAILED")

ValCounted(n) ==
    \E j \in DOMAIN events :
        /\ events[j].op = "query" /\ events[j].who = "VALIDATION"
        /\ events[j].st = "ok" /\ events[j].n = n

\* the count query, answered or not, is for the instance's run id and comes after
\* a RUN_ALL_VALIDATIONS call with that run id that returned
CountAfterRunAll ==
    \A j \in DOMAIN events :
        (events[j].op = "query" /\ events[j].who = "VALIDATION") =>
            /\ events[j].rid = orchs[of.self]
            /\ \E i \in Before(j) :
                   /\ events[i].op = "call" /\ events[i].who = "VALIDATION"
                   /\ events[i].msg = "RUN_ALL_VALIDATIONS"
                   /\ events[i].st = "ok" /\ events[i].rid = orchs[of.self]

ValidationOutcome(ok, message) ==
    /\ \E j \in DOMAIN events : IsReturn(events[j], "VALIDATION", ok)
    /\ Logged(orchs[of.self], "VALIDATION", IF ok THEN "SUCCESS" ELSE "FAILED")
    /\ \A i \in RowsOf(orchs[of.self], "VALIDATION") : logs[i].msg = message

CountMessage(n) == ToString(n) \o " validation checks failed"

StatusCall == pc = "idle" /\ of'.call = "get_pipeline_status" /\ ncalls' = ncalls + 1

\* the run id the call asked for (the instance's own when none was given)
Requested == IF of'.arg = "None" THEN orchs[of'.self] ELSE of'.arg

OpenConns(c) == {i \in DOMAIN c.conns : c.conns[i] = "open"}

\* a step established a connection
Established == Len(cn'.conns) > Len(cn.conns)

\* C20: after every call on the connector at most one of the connections it
\* established is open; a connection is established only by a call that found
\* none held or the held one closed; and a connect() that finds the held
\* connection open returns that connection and establishes nothing.
C20_AtMostOneOpenConnection ==
    [][/\ Cardinality(OpenConns(cn')) <= 1
       /\ Established =>
              /\ cn.connection = 0 \/ cn.conns[cn.connection] = "closed"
              /\ Len(cn'.conns) = Len(cn.conns) + 1
       /\ (cn'.op = "connect" /\ cn'.ncalls = cn.ncalls + 1 /\ ~cn'.raised) =>
              /\ cn'.conn_ret = cn'.connection
              /\ cn'.conn_ret \in OpenConns(cn')
              /\ cn.connection \in OpenConns(cn) =>
                     cn'.conn_ret = cn.connection /\ cn'.conns = cn.conns]_vars

C20_Witness ==
    /\ cn.op = "connect"
    /\ ~cn.raised
    /\ ~cn.established
    /\ cn.conns = <<"closed", "open">>
    /\ cn.conn_ret = 2

\* a step that is a whole close() or __exit__() call
CloseStep == cn'.op \in {"close", "__exit__"} /\ cn'.ncalls = cn.ncalls + 1

\* C21: close() never raises and leaves no open connection; called on a connector
\* that holds no connection or a closed one it calls nothing and changes neither
\* the held connection nor any connection's state; and a close() that follows a
\* close() changes nothing.
C21_CloseIdempotent ==
    [][CloseStep =>
        /\ ~cn'.raised
        /\ OpenConns(cn') = {}
        /\ (cn.connection = 0 \/ cn.conns[cn.connection] = "closed") =>
               /\ cn'.connection = cn.connection
               /\ cn'.conns = cn.conns
               /\ cn'.trace = <<>>
        /\ cn.op \in {"close", "__exit__"} =>
               cn'.connection = cn.connection /\ cn'.conns = cn.conns]_vars

C21_Witness ==
    /\ cn.op = "close"
    /\ cn.ncalls = 3
    /\ cn.conns = <<"closed">>
    /\ cn.connection = 0
    /\ cn.trace = <<>>

\* the positions of the last call's trace where `op` happened
TraceAt(op) == {k \in DOMAIN cn.trace : cn.trace[k].op = op}

\* C22: after an execute_query call no cursor is left open: the call either opened
\* none (connecting failed) or opened one first and closed it last, also when
\* the execute or the fetchall raised, in which case the error left the call and
\* nothing was returned; a call that did not raise returned the fetched rows
\* when fetch was true and None when it was false.
C22_ExecuteQueryReleasesCursor ==
    cn.op = "execute_query" =>
        /\ cn.cursors = 0
        /\ Cardinality(TraceAt("cursor")) = Cardinality(TraceAt("cursor.close"))
        /\ cn.trace # <<>> =>
               /\ TraceAt("cursor") = {1}
               /\ TraceAt("cursor.close") = {Len(cn.trace)}
        /\ (TraceAt("execute failed") # {} \/ TraceAt("fetchall failed") # {}) =>
               cn.raised /\ cn.ret = "none"
        /\ ~cn.raised =>
               /\ TraceAt("execute") # {}
               /\ cn.arg = "fetch=True" => cn.ret = "rows" /\ TraceAt("fetchall") # {}
               /\ cn.arg = "fetch=False" => cn.ret = "None" /\ TraceAt("fetchall") = {}

C22_Witness ==
    /\ cn.op = "execute_query"
    /\ cn.raised
    /\ cn.msg = "execute failed"
    /\ Len(cn.trace) = 3
    /\ cn.trace[3].op = "cursor.close"
    /\ cn.cursors = 0

\* the last call was an execute_file that connected and read its file
FileRan == cn.op = "execute_file" /\ cn.msg \notin {"connect failed", "FileNotFoundError"}

\* the statements the last call sent to cursor.execute, in order
Sent == SelectSeq(cn.trace, LAMBDA e : e.op \in {"execute", "execute failed"})

\* the positions of the last call's trace where a commit was attempted
Commits == TraceAt("commit") \cup TraceAt("commit failed")

\* C23: an execute_file call that read its file sent the file's non-empty
\* statements in file order, stopping at the first one that failed: only the
\* last statement sent can have failed, each was sent once, and then the call
\* raised with no commit; when none failed all were sent and exactly one commit
\* followed the last of them; in either case the cursor was closed last.
C23_ExecuteFileInOrderCommitOnce ==
    FileRan =>
        LET stmts == Statements(Split(cn.file, <<>>)) IN
        /\ Len(Sent) <= Len(stmts)
        /\ \A k \in DOMAIN Sent :
               /\ Sent[k].stmt = stmts[k]
               /\ Sent[k].op = "execute failed" => k = Len(Sent)
        /\ IF TraceAt("execute failed") # {}
           THEN cn.raised /\ cn.msg = "execute failed" /\ Commits = {}
           ELSE /\ Len(Sent) = Len(stmts)
                /\ Commits = {Len(cn.trace) - 1}
                /\ \A k \in TraceAt("execute") : k < Len(cn.trace) - 1
                /\ cn.raised <=> TraceAt("commit failed") # {}
        /\ TraceAt("cursor") = {1}
        /\ TraceAt("cursor.close") = {Len(cn.trace)}
        /\ cn.cursors = 0

C23_Witness ==
    /\ FileRan
    /\ cn.file = FileExample
    /\ Len(Sent) = 2
    /\ Sent[2].op = "execute failed"
    /\ cn.raised
    /\ Commits = {}
    /\ cn.trace[Len(cn.trace)].op = "cursor.close"

\* a fragment made of comments and blanks only
CommentOnly(stmt) == \A k \in DOMAIN stmt : stmt[k] \in Whitespace \cup Comments

\* C24: an execute_file call sends no fragment that is empty, blank or made of
\* comments only; for the file "INSERT ...; -- comment\n; SELECT 1;" with no
\* failing statement it sends exactly the INSERT and then SELECT 1, followed by
\* one commit.
C24_OnlyRealStatementsExecuted ==
    FileRan =>
        /\ \A k \in DOMAIN Sent : ~CommentOnly(Sent[k].stmt)
        /\ (cn.file = FileExample /\ TraceAt("execute failed") = {}) =>
               /\ [k \in DOMAIN Sent |-> Sent[k].stmt] = <<<<"INSERT">>, <<"SELECT 1">>>>
               /\ Cardinality(Commits) = 1

\* the operations of the finished program that did not succeed
FailedOps == {k \in DOMAIN cli.ops : cli.ops[k].st \in {"failed", "raised"}}

\* the programs the exit-code rule is stated for
ExitCodePrograms == {"api_ingestion", "file_ingestion", "pipeline_orchestrator"}

\* C25: a finished API-ingestion, file-ingestion or orchestrator process has exit
\* code 0 or 1; 0 only if none of the operations it performed failed, and 1 if
\* one of them failed.
C25_ExitCodeReflectsEveryOperation ==
    (cli.pc = "done" /\ cli.prog \in ExitCodePrograms) =>
        /\ cli.exit \in {0, 1}
        /\ cli.exit = 0 => FailedOps = {}
        /\ FailedOps # {} => cli.exit = 1

\* no two enabled endpoints of the configuration have the same name
EnabledNamesUnique ==
    \A i, j \in EnabledIndexes : config.endpoints[i].name = config.endpoints[j].name => i = j

\* what _fetch_api_data and _load_to_snowflake do
EndpointOps == {"sleep", "http", "fetched", "connect", "create_table", "dumps",
                "insert_row", "commit"}

\* the positions of the trace where the fetch of an endpoint configuration starts
Fetches == {j \in DOMAIN events : events[j].op = "fetch"}

\* C26: in a call of ingest_all_endpoints on a configuration whose enabled
\* endpoints have distinct names, the fetch sequences start in declaration order,
\* each for an enabled endpoint and with that endpoint's own configuration, no
\* endpoint twice; every request, sleep and warehouse operation belongs to the
\* endpoint whose fetch sequence started last, so endpoint i is finished before
\* the first request of endpoint i+1; and when the call returns every enabled
\* endpoint has had its one fetch sequence.
C26_EndpointsOneAtATimeInOrder ==
    (af.call = "ingest_all_endpoints" /\ EnabledNamesUnique) =>
        /\ \A j1, j2 \in Fetches : j1 < j2 => events[j1].n < events[j2].n
        /\ \A j \in Fetches :
               /\ events[j].n \in EnabledIndexes
               /\ events[j].who = config.endpoints[events[j].n].name
        /\ \A j \in DOMAIN events :
               events[j].op \in EndpointOps =>
                   /\ \E f \in Fetches : f < j
                   /\ events[j].who = events[Max({f \in Fetches : f < j})].who
        /\ (pc = "idle" /\ outcome.kind = "returned") =>
               \A i \in EnabledIndexes :
                   Cardinality({j \in Fetches : events[j].n = i}) = 1

C26_Witness ==
    /\ af.call = "ingest_all_endpoints"
    /\ pc = "idle" /\ outcome.kind = "returned"
    /\ Len(config.endpoints) = 2
    /\ Cardinality(Fetches) = 2
    /\ Cardinality({j \in DOMAIN events : events[j].op = "http" /\ events[j].who = "e1"}) = 2
    /\ \E j \in DOMAIN events : events[j].op = "dumps" /\ events[j].who = "e1"
    /\ \E j \in DOMAIN events : events[j].op = "http" /\ events[j].who = "e2"

\* the configured headers of an endpoint
Configured(ep) == IF "headers" \in DOMAIN ep THEN ep.headers ELSE NoHeaders

\* the headers _get_auth_headers injects
AuthHeaderNames == {"Authorization", "X-API-Key"}

\* a step in which ingest_endpoint found its endpoint and _fetch_api_data built the
\* request headers
HeadersBuilt == pc = "ie_lookup" /\ pc' = "f_loop"

\* C27: no step changes the configuration (any field of any endpoint, static
\* headers included); the headers built for the requests of an endpoint hold the
\* endpoint's static headers unchanged plus the injected header of its auth
\* type, and the injected header is not in the configured headers afterwards.
C27_EndpointConfigImmutable ==
    [][/\ config' = config
       /\ HeadersBuilt =>
              LET ep == config'.endpoints[af'.ep]
                  type == IF "auth_type" \in DOMAIN ep THEN ep.auth_type ELSE "none"
              IN /\ \A h \in DOMAIN Configured(ep) :
                        h \in DOMAIN af'.headers /\ af'.headers[h] = Configured(ep)[h]
                 /\ DOMAIN Configured(ep) \cap AuthHeaderNames = {}
                 /\ DOMAIN af'.headers \ DOMAIN Configured(ep) =
                        (IF type = "bearer" THEN {"Authorization"}
                         ELSE IF type = "api_key" THEN {"X-API-Key"} ELSE {})]_vars

C27_Witness ==
    /\ pc = "idle"
    /\ af.call = "ingest_all_endpoints"
    /\ outcome.kind = "returned"
    /\ config.endpoints = <<E1bearer, E2key>>
    /\ af.headers = With(StaticHeaders, "X-API-Key", "ENV_SECRET")
    /\ \E j \in DOMAIN events : events[j].op = "http" /\ events[j].who = "e1"
    /\ \E j \in DOMAIN events : events[j].op = "http" /\ events[j].who = "e2"

\* the scripts the finished run_setup executed or tried to execute, in order
Handled == [k \in DOMAIN cli.ops |-> cli.ops[k].op]

\* C28: run_setup goes through the listed scripts in the listed order, one entry
\* per script (executed, skipped because missing, or failed); only the last
\* script handled can have failed, and when it has, no later script was handled
\* and the exit code is 1; otherwise every listed script was handled and the
\* exit code is 0.
C28_SetupInOrderStopsAtFailure ==
    cli.prog = "run_setup" =>
        /\ Len(cli.ops) <= Len(SqlFiles)
        /\ Handled = SubSeq(SqlFiles, 1, Len(cli.ops))
        /\ \A k \in DOMAIN cli.ops : cli.ops[k].st = "failed" => k = Len(cli.ops)
        /\ cli.pc = "done" =>
               IF FailedOps # {}
               THEN cli.exit = 1
               ELSE cli.exit = 0 /\ Len(cli.ops) = Len(SqlFiles)

C28_Witness ==
    /\ cli.prog = "run_setup"
    /\ cli.pc = "done"
    /\ cli.exit = 1
    /\ Len(cli.ops) = 3
    /\ cli.ops[1].st = "ok" /\ cli.ops[2].st = "skipped" /\ cli.ops[3].st = "failed"

\* a step in which a stage function returns
Returns == Len(events') = Len(events) + 1 /\ events'[Len(events')].op = "return"

\* C29: when a stage function returns, the rows of its stage for the run exist and
\* none is IN_PROGRESS: they are SUCCESS when it returns True and FAILED when it
\* returns False.
C29_ReturnValueAgreesWithLogRow ==
    [][Returns =>
        LET e == events'[Len(events')]
            rows == {i \in DOMAIN logs' : logs'[i].run_id = e.rid /\ logs'[i].name = e.who}
        IN /\ rows # {}
           /\ e.st \in {"True", "False"}
           /\ \A i \in rows :
                  /\ logs'[i].status # "IN_PROGRESS"
                  /\ e.st = "True" <=> logs'[i].status = "SUCCESS"
                  /\ e.st = "False" <=> logs'[i].status = "FAILED"]_vars

C29_Witness ==
    /\ pc = "idle"
    /\ of.call = "run_full_pipeline"
    /\ \E j \in DOMAIN events : IsReturn(events[j], "INGESTION", TRUE)
    /\ IsReturn(events[Len(events)], "TRANSFORMATION", FALSE)
    /\ Logged(orchs[of.self], "INGESTION", "SUCCESS")
    /\ Logged(orchs[of.self], "TRANSFORMATION", "FAILED")
    /\ RaisedIn("TRANSFORMATION") # {}

\* the operations _load_to_snowflake performs on the warehouse
LoadOps == {"connect", "create_table", "insert_row", "commit"}
\* the fetch of the ingest_endpoint call that is over returned data
FetchedData == LoadStart > 0 /\ events[LoadStart].st = "data"
\* the load of that call inserted every record and committed
LoadSucceeded ==
    /\ \E j \in DOMAIN LoadSeg : LoadSeg[j].op = "commit" /\ LoadSeg[j].st = "ok"
    /\ Cardinality({j \in DOMAIN LoadSeg :
                        LoadSeg[j].op = "insert_row" /\ LoadSeg[j].st = "ok"})
           = Len(af.data.items)

\* C30: ingest_endpoint loads only after its fetch returned data: every warehouse
\* operation (connect, CREATE TABLE, INSERT, commit) of an endpoint follows a fetch
\* of that endpoint that returned data, with nothing but the load in between; when
\* the fetch returned None the next step returns False with no operation and no
\* connection opened; and a call of ingest_endpoint returns True exactly when its
\* fetch returned data and the load of that data succeeded.
C30_LoadOnlyAfterFetchedData ==
    /\ [](( of.call = "none" /\ af.call \in {"ingest_endpoint", "ingest_all_endpoints"}) =>
           /\ \A j \in DOMAIN events :
                  events[j].op \in LoadOps =>
                      \E i \in 1..(j - 1) :
                          /\ events[i].op = "fetched"
                          /\ events[i].st = "data"
                          /\ events[i].who = events[j].who
                          /\ \A k \in (i + 1)..(j - 1) :
                                 events[k].op \in LoadOps \cup {"dumps"}
           /\ (pc = "idle" /\ af.call = "ingest_endpoint" /\ outcome.kind = "returned") =>
                  /\ outcome.ret <=> (FetchedData /\ LoadSucceeded)
                  /\ ~FetchedData => \A j \in DOMAIN events : events[j].op \notin LoadOps)
    /\ [][(pc = "ie_fetched" /\ events[Len(events)].st = "None") =>
               /\ pc' = "ie_return"
               /\ af'.success = FALSE
               /\ UNCHANGED <<events, api_sf, sf>>]_vars
    /\ [][(pc = "ie_return" /\ af.call = "ingest_endpoint") =>
               /\ outcome'.kind = "returned"
               /\ outcome'.ret = af.success
               /\ UNCHANGED <<events, api_sf, sf>>]_vars

C30_Witness ==
    /\ pc = "idle"
    /\ af.call = "ingest_endpoint"
    /\ af.name = "e2"
    /\ events # <<>>
    /\ LoadStart = Len(events)
    /\ events[LoadStart].st = "None"
    /\ \E j \in DOMAIN events : events[j].op = "http" /\ events[j].st # "ok"
    /\ api_sf = "None"
    /\ outcome.kind = "returned"
    /\ outcome.ret = FALSE

\* a command-line program has terminated
Terminated == cli.pc = "done"

\* C31: when a command-line entry point has terminated, no connection opened during
\* it is still open: not the one of the connector the program created, not the one
\* of an orchestrator, and not the one of the APIIngestion instance that the
\* orchestrator's ingestion stage created.
C31_EveryConnectionClosedAtExit ==
    Terminated =>
        /\ cli.sf # "open"
        /\ \A i \in DOMAIN sf : sf[i] # "open"
        /\ api_sf # "open"

====
